---- MODULE Spec2Model ----
(***************************************************************************)
(* rust-assimp: the Importer / Scene ownership layer over the native       *)
(* assimp C API.  The native library is the environment: its state (the    *)
(* property stores and the scenes it allocated) is part of the model, and  *)
(* every foreign call a wrapper method issues is recorded in `calls`.      *)
(***************************************************************************)
EXTENDS Integers, Sequences, FiniteSets, TLC

\* ------------------------------------------------------------------ bounds

\* How many native property stores may be allocated in one run.
MaxStores == 2
\* How many native scenes the import call may hand out in one run.
MaxScenes == 1
\* How many Scene wrappers may be constructed in one run.
MaxWrappers == 2
\* Longest step list the flag-word operations are checked with.
MaxSteps == 2

\* The longest list payload of a property.
MaxList == 2
\* The most meshes of an imported scene, faces of a mesh, indices of a face.
MaxMeshes == 2
MaxFaces == 2
MaxIndices == 3
\* The most vertices of a mesh the per-vertex accessors are called on.
MaxVertices == 2
\* Width of a c_uint where the size of a texture is computed; the widths
\* and heights of textures are the values of that many bits.
TextureBits == 4
\* The most nodes of a node hierarchy.
MaxNodes == 4
\* How many scenes one Importer returns where their independence is checked.
MaxOwned == 2
\* Width of the flag words of the model; every flag bit used fits in it.
WordBits == 11

\* ------------------------------------------------- post-processing flags

\* postprocess::Process / PostProcessSteps, as the native flag values.
Process_JoinIdenticalVertices == 2
Process_Triangulate == 8
Process_ValidateDS == 1024

\* The steps the operations are called with.
StepInputs ==
    {Process_JoinIdenticalVertices, Process_Triangulate, Process_ValidateDS}

\* scene::SceneFlags
SceneFlags_INCOMPLETE == 1
SceneFlags_VALIDATED == 2
SceneFlags_VALIDATION_WARNING == 4
SceneFlags_NON_VERBOSE_FORMAT == 8
SceneFlags_TERRAIN == 16

SceneFlags ==
    {SceneFlags_INCOMPLETE, SceneFlags_VALIDATED, SceneFlags_VALIDATION_WARNING,
     SceneFlags_NON_VERBOSE_FORMAT, SceneFlags_TERRAIN}

\* mesh::MAX_NUMBER_OF_COLOR_SETS, mesh::MAX_NUMBER_OF_TEXTURECOORDS
MAX_NUMBER_OF_COLOR_SETS == 8
MAX_NUMBER_OF_TEXTURECOORDS == 8

\* ------------------------------------------------------- bitwise operators

\* x | y on unsigned words.
RECURSIVE BitOr(_, _)
BitOr(x, y) ==
    IF x = 0 THEN y
    ELSE IF y = 0 THEN x
    ELSE (IF x % 2 = 1 \/ y % 2 = 1 THEN 1 ELSE 0)
         + 2 * BitOr(x \div 2, y \div 2)

\* x & y on unsigned words.
RECURSIVE BitAnd(_, _)
BitAnd(x, y) ==
    IF x = 0 \/ y = 0 THEN 0
    ELSE (IF x % 2 = 1 /\ y % 2 = 1 THEN 1 ELSE 0)
         + 2 * BitAnd(x \div 2, y \div 2)

\* !x on a word of WordBits bits.
BitNot(x) == (2 ^ WordBits - 1) - x

\* Bit b of x.
Bit(x, b) == (x \div (2 ^ b)) % 2

\* set.iter().fold(x, |x, &y| x | y as u32)
RECURSIVE fold_flags(_, _)
fold_flags(x, set) ==
    IF set = << >> THEN x
    ELSE fold_flags(BitOr(x, Head(set)), Tail(set))

\* set.iter().fold(x, |x, &y| x & !(y as u32))
RECURSIVE fold_clear(_, _)
fold_clear(x, set) ==
    IF set = << >> THEN x
    ELSE fold_clear(BitAnd(x, BitNot(Head(set))), Tail(set))

\* x ^ y on unsigned words.
RECURSIVE BitXor(_, _)
BitXor(x, y) ==
    IF x = 0 THEN y
    ELSE IF y = 0 THEN x
    ELSE (IF x % 2 # y % 2 THEN 1 ELSE 0) + 2 * BitXor(x \div 2, y \div 2)

\* add_processing_steps with + written for |.
RECURSIVE add_processing_steps_sum(_, _)
add_processing_steps_sum(flags, set) ==
    IF set = << >> THEN flags
    ELSE add_processing_steps_sum(flags + Head(set), Tail(set))

\* Importer::add_processing_steps: the new value of self.flags.
add_processing_steps(flags, set) == fold_flags(flags, set)

\* rm_processing_steps clearing the whole word when given any step.
rm_processing_steps_all(flags, set) == IF set = << >> THEN flags ELSE 0

\* rm_processing_steps with ^ written for & !.
RECURSIVE rm_processing_steps_xor(_, _)
rm_processing_steps_xor(flags, set) ==
    IF set = << >> THEN flags
    ELSE rm_processing_steps_xor(BitXor(flags, Head(set)), Tail(set))

\* Importer::rm_processing_steps: the new value of self.flags.
rm_processing_steps(flags, set) == fold_clear(flags, set)

\* no_post_processing leaving the flag word as it is.
no_post_processing_keep(flags) == flags

\* Importer::no_post_processing: the new value of self.flags.
no_post_processing(flags) == 0

\* check_flag comparing the whole word with the flag.
check_flag_equal(flags, flag) == flags = flag

\* Scene::check_flag
check_flag(flags, flag) == BitAnd(flags, flag) # 0

\* ------------------------------------------------------------- properties

\* importer::PropertyType, one constructor per variant.
PFloat(val) == [kind |-> "PFloat", b |-> FALSE, i |-> 0, f |-> val, s |-> ""]
PInt(val) == [kind |-> "PInt", b |-> FALSE, i |-> val, f |-> "", s |-> ""]
PBool(val) == [kind |-> "PBool", b |-> val, i |-> 0, f |-> "", s |-> ""]
PStr(val) == [kind |-> "PStr", b |-> FALSE, i |-> 0, f |-> "", s |-> val]

\* A value of property::Property: the variant and its payload.
Property(variant, b, i, f, s, list) ==
    [variant |-> variant, b |-> b, i |-> i, f |-> f, s |-> s, list |-> list]

BoolProperty(variant, a) == Property(variant, a, 0, "", "", << >>)
IntProperty(variant, a) == Property(variant, FALSE, a, "", "", << >>)
FloatProperty(variant, a) == Property(variant, FALSE, 0, a, "", << >>)
StrProperty(variant, a) == Property(variant, FALSE, 0, "", a, << >>)
ListProperty(variant, list) == Property(variant, FALSE, 0, "", "", list)

\* The fold of a list payload with + written for |.
RECURSIVE fold_list_sum(_)
fold_list_sum(list) ==
    IF list = << >> THEN 0 ELSE Head(list) + fold_list_sum(Tail(list))

\* decompose_property, list variants: list.iter().fold(0, |sum, &y| sum | y)
fold_list(list) == fold_flags(0, list)

\* The variants of property::Property, by the type of their payload.
BoolVariants ==
    {"GLOB_MEASURE_TIME", "PP_PTV_KEEP_HIERARCHY", "PP_FD_REMOVE",
     "PP_DB_ALL_OR_NONE", "FAVOUR_SPEED", "IMPORT_AC_SEPARATE_BFCULL",
     "IMPORT_AC_EVAL_SUBDIVISION", "IMPORT_UNREAL_HANDLE_FLAGS",
     "IMPORT_TER_MAKE_UVS", "IMPORT_ASE_RECONSTRUCT_NORMALS",
     "IMPORT_MD3_HANDLE_MULTIPART", "IMPORT_MD5_NO_ANIM_AUTOLOAD",
     "IMPORT_OGRE_TEXTURETYPE_FROM_FILENAME",
     "IMPORT_IFC_SKIP_SPACE_REPRESENTATIONS",
     "IMPORT_IFC_SKIP_CURVE_REPRESENTATIONS",
     "IMPORT_IFC_CUSTOM_TRIANGULATION"}

IntVariants ==
    {"PP_SBBC_MAX_BONES", "PP_CT_TEXTURE_CHANNEL_INDEX", "PP_SLM_TRIANGLE_LIMIT",
     "PP_SLM_VERTEX_LIMIT", "PP_LBW_MAX_WEIGHTS", "PP_ICL_PTCACHE_SIZE",
     "IMPORT_GLOBAL_KEYFRAME", "IMPORT_MD3_KEYFRAME", "IMPORT_MD2_KEYFRAME",
     "IMPORT_MDL_KEYFRAME", "IMPORT_MDC_KEYFRAME", "IMPORT_SMD_KEYFRAME",
     "IMPORT_UNREAL_KEYFRAME", "IMPORT_LWO_ONE_LAYER_ONLY",
     "IMPORT_LWS_ANIM_START", "IMPORT_LWS_ANIM_END", "IMPORT_IRR_ANIM_FPS"}

FloatVariants ==
    {"PP_CT_MAX_SMOOTHING_ANGLE", "PP_GSN_MAX_SMOOTHING_ANGLE",
     "PP_PTV_NORMALIZE", "PP_DB_THRESHOLD", "PP_FID_ANIM_ACCURACY"}

StrVariants ==
    {"IMPORT_MDL_COLORMAP", "PP_RRM_EXCLUDE_LIST", "PP_OG_EXCLUDE_LIST",
     "IMPORT_MD3_SKIN_NAME", "IMPORT_MD3_SHADER_SRC",
     "IMPORT_OGRE_MATERIAL_FILE"}

ListVariants == {"PP_RVC_FLAGS", "PP_SBP_REMOVE", "PP_TUV_EVALUATE"}

\* decompose_property naming a property after the type of its payload.
decompose_property_by_type(property) ==
    CASE property.variant \in BoolVariants -> << "BOOL", PBool(property.b) >>
      [] property.variant \in IntVariants -> << "INT", PInt(property.i) >>
      [] property.variant \in FloatVariants -> << "FLOAT", PFloat(property.f) >>
      [] property.variant \in StrVariants -> << "STRING", PStr(property.s) >>
      [] property.variant \in ListVariants ->
            << "LIST", PInt(fold_list(property.list)) >>

\* importer::decompose_property: (name, wrapped value).
decompose_property(property) ==
    CASE property.variant = "GLOB_MEASURE_TIME" ->
            << "GLOB_MEASURE_TIME", PBool(property.b) >>
      [] property.variant = "PP_SBBC_MAX_BONES" ->
            << "PP_SBBC_MAX_BONES", PInt(property.i) >>
      [] property.variant = "PP_CT_MAX_SMOOTHING_ANGLE" ->
            << "PP_CT_MAX_SMOOTHING_ANGLE", PFloat(property.f) >>
      [] property.variant = "PP_CT_TEXTURE_CHANNEL_INDEX" ->
            << "PP_CT_TEXTURE_CHANNEL_INDEX", PInt(property.i) >>
      [] property.variant = "PP_GSN_MAX_SMOOTHING_ANGLE" ->
            << "PP_GSN_MAX_SMOOTHING_ANGLE", PFloat(property.f) >>
      [] property.variant = "IMPORT_MDL_COLORMAP" ->
            << "IMPORT_MDL_COLORMAP", PStr(property.s) >>
      [] property.variant = "PP_RRM_EXCLUDE_LIST" ->
            << "PP_RRM_EXCLUDE_LIST", PStr(property.s) >>
      [] property.variant = "PP_PTV_KEEP_HIERARCHY" ->
            << "PP_PTV_KEEP_HIERARCHY", PBool(property.b) >>
      [] property.variant = "PP_PTV_NORMALIZE" ->
            << "PP_PTV_NORMALIZE", PFloat(property.f) >>
      [] property.variant = "PP_FD_REMOVE" ->
            << "PP_FD_REMOVE", PBool(property.b) >>
      [] property.variant = "PP_OG_EXCLUDE_LIST" ->
            << "PP_OG_EXCLUDE_LIST", PStr(property.s) >>
      [] property.variant = "PP_SLM_TRIANGLE_LIMIT" ->
            << "PP_SLM_TRIANGLE_LIMIT", PInt(property.i) >>
      [] property.variant = "PP_SLM_VERTEX_LIMIT" ->
            << "PP_SLM_VERTEX_LIMIT", PInt(property.i) >>
      [] property.variant = "PP_LBW_MAX_WEIGHTS" ->
            << "PP_LBW_MAX_WEIGHTS", PInt(property.i) >>
      [] property.variant = "PP_DB_THRESHOLD" ->
            << "PP_DB_THRESHOLD", PFloat(property.f) >>
      [] property.variant = "PP_DB_ALL_OR_NONE" ->
            << "PP_DB_ALL_OR_NONE", PBool(property.b) >>
      [] property.variant = "PP_ICL_PTCACHE_SIZE" ->
            << "PP_ICL_PTCACHE_SIZE", PInt(property.i) >>
      [] property.variant = "PP_RVC_FLAGS" ->
            << "PP_RVC_FLAGS", PInt(fold_list(property.list)) >>
      [] property.variant = "PP_SBP_REMOVE" ->
            << "PP_SBP_REMOVE", PInt(fold_list(property.list)) >>
      [] property.variant = "PP_TUV_EVALUATE" ->
            << "PP_TUV_EVALUATE", PInt(fold_list(property.list)) >>
      [] property.variant = "PP_FID_ANIM_ACCURACY" ->
            << "PP_FID_ANIM_ACCURACY", PFloat(property.f) >>
      [] property.variant = "FAVOUR_SPEED" ->
            << "FAVOUR_SPEED", PBool(property.b) >>
      [] property.variant = "IMPORT_GLOBAL_KEYFRAME" ->
            << "IMPORT_GLOBAL_KEYFRAME", PInt(property.i) >>
      [] property.variant = "IMPORT_MD2_KEYFRAME" ->
            << "IMPORT_MD2_KEYFRAME", PInt(property.i) >>
      [] property.variant = "IMPORT_MD3_KEYFRAME" ->
            << "IMPORT_MD3_KEYFRAME", PInt(property.i) >>
      [] property.variant = "IMPORT_MDC_KEYFRAME" ->
            << "IMPORT_MDC_KEYFRAME", PInt(property.i) >>
      [] property.variant = "IMPORT_MDL_KEYFRAME" ->
            << "IMPORT_MDL_KEYFRAME", PInt(property.i) >>
      [] property.variant = "IMPORT_SMD_KEYFRAME" ->
            << "IMPORT_SMD_KEYFRAME", PInt(property.i) >>
      [] property.variant = "IMPORT_UNREAL_KEYFRAME" ->
            << "IMPORT_UNREAL_KEYFRAME", PInt(property.i) >>
      [] property.variant = "IMPORT_AC_SEPARATE_BFCULL" ->
            << "IMPORT_AC_SEPARATE_BFCULL", PBool(property.b) >>
      [] property.variant = "IMPORT_AC_EVAL_SUBDIVISION" ->
            << "IMPORT_AC_EVAL_SUBDIVISION", PBool(property.b) >>
      [] property.variant = "IMPORT_UNREAL_HANDLE_FLAGS" ->
            << "UNREAL_HANDLE_FLAGS", PBool(property.b) >>
      [] property.variant = "IMPORT_TER_MAKE_UVS" ->
            << "IMPORT_TER_MAKE_UVS", PBool(property.b) >>
      [] property.variant = "IMPORT_ASE_RECONSTRUCT_NORMALS" ->
            << "IMPORT_ASE_RECONSTRUCT_NORMALS", PBool(property.b) >>
      [] property.variant = "IMPORT_MD3_HANDLE_MULTIPART" ->
            << "IMPORT_MD3_HANDLE_MULTIPART", PBool(property.b) >>
      [] property.variant = "IMPORT_MD3_SKIN_NAME" ->
            << "IMPORT_MD3_SKIN_NAME", PStr(property.s) >>
      [] property.variant = "IMPORT_MD3_SHADER_SRC" ->
            << "IMPORT_MD3_SHADER_SRC", PStr(property.s) >>
      [] property.variant = "IMPORT_MD5_NO_ANIM_AUTOLOAD" ->
            << "IMPORT_MD5_NO_ANIM_AUTOLOAD", PBool(property.b) >>
      [] property.variant = "IMPORT_LWO_ONE_LAYER_ONLY" ->
            << "IMPORT_LWO_ONE_LAYER_ONLY", PInt(property.i) >>
      [] property.variant = "IMPORT_LWS_ANIM_START" ->
            << "IMPORT_LWS_ANIM_START", PInt(property.i) >>
      [] property.variant = "IMPORT_LWS_ANIM_END" ->
            << "IMPORT_LWS_ANIM_END", PInt(property.i) >>
      [] property.variant = "IMPORT_IRR_ANIM_FPS" ->
            << "IMPORT_IRR_ANIM_FPS", PInt(property.i) >>
      [] property.variant = "IMPORT_OGRE_MATERIAL_FILE" ->
            << "IMPORT_OGRE_MATERIAL_FILE", PStr(property.s) >>
      [] property.variant = "IMPORT_OGRE_TEXTURETYPE_FROM_FILENAME" ->
            << "IMPORT_OGRE_TEXTURETYPE_FROM_FILENAME", PBool(property.b) >>
      [] property.variant = "IMPORT_IFC_SKIP_SPACE_REPRESENTATIONS" ->
            << "IMPORT_IFC_SKIP_SPACE_REPRESENTATIONS", PBool(property.b) >>
      [] property.variant = "IMPORT_IFC_SKIP_CURVE_REPRESENTATIONS" ->
            << "IMPORT_IFC_SKIP_CURVE_REPRESENTATIONS", PBool(property.b) >>
      [] property.variant = "IMPORT_IFC_CUSTOM_TRIANGULATION" ->
            << "IMPORT_IFC_CUSTOM_TRIANGULATION", PBool(property.b) >>

\* property::Component, mesh::PrimitiveType and property::TransformUV values
\* used as list elements.
Component_Normals == 2
Component_Colors == 8
PrimitiveType_Point == 1
PrimitiveType_Line == 2
TransformUV_Scaling == 1
TransformUV_All == 7

\* The properties set_import_property is called with.
PropInputs ==
    {BoolProperty("GLOB_MEASURE_TIME", TRUE),
     BoolProperty("GLOB_MEASURE_TIME", FALSE),
     ListProperty("PP_RVC_FLAGS", <<Component_Normals, Component_Colors>>)}

\* The names under which PropInputs are stored.
PropNames == {decompose_property(p)[1] : p \in PropInputs}

\* The elements a list payload is made of, by variant.
ListElements(variant) ==
    CASE variant = "PP_RVC_FLAGS" -> {Component_Normals, Component_Colors}
      [] variant = "PP_SBP_REMOVE" -> {PrimitiveType_Point, PrimitiveType_Line}
      [] variant = "PP_TUV_EVALUATE" -> {TransformUV_Scaling, TransformUV_All}

\* Lists of at most MaxList elements of `elems`.
ListsOf(elems) == UNION {[1..n -> elems] : n \in 0..MaxList}

\* A value of every variant of property::Property.
AnyProperty ==
    {BoolProperty(v, a) : v \in BoolVariants, a \in BOOLEAN}
    \cup {IntProperty(v, 2500) : v \in IntVariants}
    \cup {FloatProperty(v, "0.5") : v \in FloatVariants}
    \cup {StrProperty(v, "skin") : v \in StrVariants}
    \cup UNION {{ListProperty(v, list) : list \in ListsOf(ListElements(v))} :
                v \in ListVariants}

\* What the native library reads at the name pointer it is given.  The
\* pointer is s.as_ptr() of a string literal, which carries no terminating
\* NUL: the library reads the literal and then whatever bytes follow it in
\* the binary, up to the first zero byte.  Terminated: a zero byte follows
\* the literal.  Overrun: other bytes follow it.
Terminated == ""
Overrun == "?"
NameTails == {Terminated, Overrun}

\* The key a native store files a value under: the bytes it read as the name.
Key(name, tail) == <<name, tail>>

\* ------------------------------------------------------------------ state

VARIABLES
    importer,   \* the Importer: its lifetime, property_store and flags
    stores,     \* native property stores, by handle
    native,     \* native scenes, by pointer
    scenes,     \* the Scene wrappers, by identity
    calls,      \* the foreign calls issued by the last operation, in order
    ret,        \* the last operation, its arguments and its result
    prev,       \* the operation before the last one
    running     \* FALSE once undefined behaviour has ended the process

vars == <<importer, stores, native, scenes, calls, ret, prev, running>>

\* The null pointer.
NULL == 0

StoreIds == 1..MaxStores
ScenePtrs == 1..MaxScenes
WrapperIds == 1..MaxWrappers

\* The scene pointers handed out where several scenes are imported.
OwnedPtrs == 1..MaxOwned

\* A property that was never set.
Unset == [kind |-> "Unset", b |-> FALSE, i |-> 0, f |-> "", s |-> ""]

\* The contents of a property store right after aiCreatePropertyStore.
EmptyProps == [k \in {} |-> Unset]

\* The value a store's contents hold under a key.
Lookup(props, key) == IF key \in DOMAIN props THEN props[key] ELSE Unset

\* Step lists of at most MaxSteps steps.
StepLists == UNION {[1..n -> StepInputs] : n \in 0..MaxSteps}

\* The step lists the Importer and the Scene are called with.
CallStepLists ==
    {<< >>, <<Process_Triangulate>>, <<Process_ValidateDS>>,
     <<Process_ValidateDS, Process_Triangulate>>}

\* The files import_from_file is called with.
Files == {"examples/assets/cube.dae", "no/such/file"}

\* The flag words the native importer may give a scene before validation.
ImportedSceneFlags == {0}

\* What a read through a pointer to freed or reset native memory may yield.
DanglingOutcomes == {"garbage", "fault"}

\* One foreign call, as the native library receives it: its arguments, the
\* contents of the store it is given (props) and whether the store or scene
\* it is given is one the library still holds (live).
Call(fn, store, scene, flags, file, name, val, props, live) ==
    [fn |-> fn, store |-> store, scene |-> scene, flags |-> flags,
     fio |-> NULL, file |-> file, name |-> name, tail |-> Terminated,
     val |-> val, props |-> props, live |-> live, result |-> NULL]

\* The call c, the library reading `tail` after the name it is pointed at.
ReadName(c, tail) == [c EXCEPT !.tail = tail]

\* The call c, with the value the native library returned for it.
Returned(c, result) == [c EXCEPT !.result = result]

\* A foreign array pointer: its address and the elements found there.
PtrTo(addr, mem) == [addr |-> addr, mem |-> mem]
NullPtr == PtrTo(NULL, << >>)

\* std::raw::Slice { data, len }
Slice(data, len) == [data |-> data, len |-> len]
NoSlice == Slice(NullPtr, 0)

\* slice[i], i counted from 0: the element i places after slice.data.
At(slice, i) == slice.data.mem[i + 1]

\* mesh::Face { num_indices, indices }
Face(num_indices, indices) == [num_indices |-> num_indices, indices |-> indices]

\* mesh::Mesh { .. num_faces, faces .. }
Mesh(num_faces, faces) == [num_faces |-> num_faces, faces |-> faces]

\* scene::RawScene { .. num_meshes, meshes .. }
RawScene(num_meshes, meshes) == [num_meshes |-> num_meshes, meshes |-> meshes]

\* The scene of one mesh of one triangle.
TriangleScene ==
    RawScene(1, PtrTo(10, <<Mesh(1, PtrTo(20, <<Face(3, PtrTo(30, <<0, 1, 2>>))>>))>>))

\* The pointer the native library keeps for an array: of an empty array,
\* null (empty = NULL) or some address (empty = the address).
ArrayPtr(addr, mem, empty) ==
    IF mem = << >> THEN PtrTo(empty, << >>) ELSE PtrTo(addr, mem)

\* Face j of mesh k, of 1 + (ni + j + k) % MaxIndices indices.
FaceOf(k, j, ni) ==
    LET n == 1 + ((ni + j + k) % MaxIndices) IN
        Face(n, PtrTo(100 * k + 10 * j, [i \in 1..n |-> 3 * j + i - 1]))

\* Mesh k, of (nf + k - 1) % (MaxFaces + 1) faces.
MeshOf(k, nf, ni, empty) ==
    LET n == (nf + k - 1) % (MaxFaces + 1) IN
        Mesh(n, ArrayPtr(100 * k, [j \in 1..n |-> FaceOf(k, j, ni)], empty))

\* The scenes the native importer builds: nm meshes, the first of nf faces.
SceneContents ==
    {RawScene(nm, ArrayPtr(1000, [k \in 1..nm |-> MeshOf(k, nf, ni, empty)], empty)) :
        nm \in 0..MaxMeshes, nf \in 0..MaxFaces, ni \in 1..MaxIndices,
        empty \in {NULL, 1}}

\* The record of one operation of the wrapper.  path, ptr, len and slice
\* are filled by the operations that return a slice: where in the scene it
\* was taken, the pointer and count it was made of, and the slice.  args
\* are the other fields of self the operation read, list the Vec it
\* returned, fields the scalar fields of the value it returned.
Ret(op, w, val, steps, prop, invalid, old) ==
    [op |-> op, w |-> w, val |-> val, steps |-> steps, prop |-> prop,
     invalid |-> invalid, old |-> old,
     path |-> << >>, ptr |-> NullPtr, len |-> 0, slice |-> NoSlice,
     args |-> << >>, list |-> << >>, fields |-> << >>]

\* The record r of an operation that made `slice` of ptr and len.
Sliced(r, path, ptr, len, slice) ==
    [r EXCEPT !.path = path, !.ptr = ptr, !.len = len, !.slice = slice]

NoProperty == Property("", FALSE, 0, "", "", << >>)

\* What `prev` keeps of an operation.
PrevOf(r) == [op |-> r.op, steps |-> r.steps, prop |-> r.prop, old |-> r.old]

\* The history of an operation that keeps none.
NoPrev == [op |-> "", steps |-> << >>, prop |-> NoProperty, old |-> 0]

\* struct Importer { property_store, flags }
Importer(state, property_store, flags) ==
    [state |-> state, property_store |-> property_store, flags |-> flags]

\* struct Scene { raw_scene, flags, num_meshes, .. }; failed records that
\* apply_postprocessing has returned Err on this wrapper, view the view
\* into the scene the caller holds.
Scene(state, raw_scene, flags, failed) ==
    [state |-> state, raw_scene |-> raw_scene, flags |-> flags,
     num_meshes |-> 0, failed |-> failed, view |-> "none"]

NoStore == [state |-> "unallocated", props |-> EmptyProps, releases |-> 0]
NoNative ==
    [state |-> "unallocated", flags |-> 0, releases |-> 0,
     num_meshes |-> 0, meshes |-> NullPtr]
NoScene == Scene("none", NULL, 0, FALSE)

Init ==
    /\ importer = Importer("none", NULL, 0)
    /\ stores = [s \in StoreIds |-> NoStore]
    /\ native = [p \in ScenePtrs \cup OwnedPtrs |-> NoNative]
    /\ scenes = [w \in WrapperIds |-> NoScene]
    /\ calls = << >>
    /\ ret = Ret("init", 0, "unit", << >>, NoProperty, FALSE, 0)
    /\ prev = NoPrev
    /\ running = TRUE

\* ------------------------------------------------------ the native library

\* Handles and pointers the native allocator has not handed out yet.
FreshStores == {s \in StoreIds : stores[s].state = "unallocated"}
FreshScenes == {p \in ScenePtrs : native[p].state = "unallocated"}
FreshWrappers == {w \in WrapperIds : scenes[w].state = "none"}

Least(S) == CHOOSE x \in S : \A y \in S : x <= y

\* aiCreatePropertyStore: the store table after the call returned handle s.
aiCreatePropertyStore(st, s) ==
    IF s = NULL THEN st
    ELSE [st EXCEPT ![s] = [state |-> "live", props |-> EmptyProps,
                            releases |-> 0]]

\* What aiCreatePropertyStore may return: a new store, and NULL where the
\* allocation may fail.
AllocOutcomes(may_fail) ==
    (IF FreshStores # {} THEN {Least(FreshStores)} ELSE {})
    \cup (IF may_fail THEN {NULL} ELSE {})

\* aiReleasePropertyStore
aiReleasePropertyStore(st, s) ==
    IF s = NULL THEN st
    ELSE [st EXCEPT ![s] = [state |-> "released", props |-> EmptyProps,
                            releases |-> @.releases + 1]]

\* aiSetImportPropertyInteger / Float / String: last write for a name wins.
aiSetImportProperty(st, s, name, val) ==
    IF s # NULL /\ st[s].state = "live"
    THEN [st EXCEPT ![s].props = (name :> val) @@ @]
    ELSE st

\* The contents of the store behind a handle.
StoreProps(st, s) == IF s = NULL THEN EmptyProps ELSE st[s].props

\* aiReleaseImport: NULL is a valid value.
aiReleaseImport(nat, p) ==
    IF p = NULL THEN nat
    ELSE [nat EXCEPT ![p].state = "released", ![p].releases = @ + 1,
                     ![p].num_meshes = 0, ![p].meshes = NullPtr]

\* A store or scene the native library still holds.
StoreLive(s) == s # NULL /\ stores[s].state = "live"
SceneLive(p) == p # NULL /\ native[p].state = "live"

\* ------------------------------------------------------------ the Importer

\* The record an operation leaves: itself, and no history.
Step(r) ==
    /\ ret' = r
    /\ prev' = NoPrev

\* The record of an operation that keeps the one before it, when that was
\* one of `ops`.
StepAfter(r, ops) ==
    /\ ret' = r
    /\ prev' = IF ret.op \in ops THEN PrevOf(ret) ELSE NoPrev

\* Importer::new starting from a default set of steps.
new_with_steps(property_store) ==
    Importer("live", property_store, Process_Triangulate)

\* Importer::new, the allocator returning property_store.
new(property_store) == Importer("live", property_store, 0)

\* Importer::new
NewOf(may_fail) ==
    \E s \in AllocOutcomes(may_fail) :
        /\ running
        /\ importer.state # "live"
        /\ stores' = aiCreatePropertyStore(stores, s)
        /\ importer' = new(s)
        /\ calls' = <<Returned(Call("aiCreatePropertyStore", NULL, NULL, 0, "",
                                    "", Unset, EmptyProps, TRUE), s)>>
        /\ Step(Ret("new", 0, "Importer", << >>, NoProperty, FALSE, 0))
        /\ UNCHANGED <<native, scenes, running>>

New == NewOf(FALSE)

\* Importer::new where the allocation may fail.
NewOrNull == NewOf(TRUE)

\* Importer::add_processing_steps, called with one of `lists`.
AddProcessingStepsOf(lists, history) ==
    \E set \in lists :
        /\ running
        /\ importer.state = "live"
        /\ importer' = [importer EXCEPT
                            !.flags = add_processing_steps(importer.flags, set)]
        /\ calls' = << >>
        /\ StepAfter(Ret("add_processing_steps", 0, "unit", set, NoProperty,
                         FALSE, importer.flags), history)
        /\ UNCHANGED <<stores, native, scenes, running>>

\* Importer::rm_processing_steps, called with one of `lists`.
RmProcessingStepsOf(lists, history) ==
    \E set \in lists :
        /\ running
        /\ importer.state = "live"
        /\ importer' = [importer EXCEPT
                            !.flags = rm_processing_steps(importer.flags, set)]
        /\ calls' = << >>
        /\ StepAfter(Ret("rm_processing_steps", 0, "unit", set, NoProperty,
                         FALSE, importer.flags), history)
        /\ UNCHANGED <<stores, native, scenes, running>>

AddProcessingSteps == AddProcessingStepsOf(CallStepLists, {})

RmProcessingSteps == RmProcessingStepsOf(CallStepLists, {})

\* The same two, over every step list and keeping the add before them.
AddSteps == AddProcessingStepsOf(StepLists, {"add_processing_steps"})

RmSteps == RmProcessingStepsOf(StepLists, {"add_processing_steps"})

\* Importer::no_post_processing
NoPostProcessing ==
    /\ running
    /\ importer.state = "live"
    /\ importer' = [importer EXCEPT !.flags = no_post_processing(importer.flags)]
    /\ calls' = << >>
    /\ Step(Ret("no_post_processing", 0, "unit", << >>, NoProperty, FALSE,
                importer.flags))
    /\ UNCHANGED <<stores, native, scenes, running>>

\* set_import_property sending a bool through as it is, not as 1 or 0.
set_import_property_rawbool(imp, property) ==
    LET d == decompose_property(property) IN
        Call(CASE d[2].kind = "PFloat" -> "aiSetImportPropertyFloat"
               [] d[2].kind = "PStr" -> "aiSetImportPropertyString"
               [] OTHER -> "aiSetImportPropertyInteger",
             imp.property_store, NULL, 0, "", d[1], d[2], EmptyProps,
             StoreLive(imp.property_store))

\* Importer::set_import_property: the foreign call the match selects.
set_import_property(imp, property) ==
    LET d == decompose_property(property)
        s == d[1]
        wrapped_val == d[2]
        live == StoreLive(imp.property_store)
    IN  CASE wrapped_val.kind = "PFloat" ->
                Call("aiSetImportPropertyFloat", imp.property_store, NULL, 0, "",
                     s, wrapped_val, EmptyProps, live)
          [] wrapped_val.kind = "PInt" ->
                Call("aiSetImportPropertyInteger", imp.property_store, NULL, 0, "",
                     s, wrapped_val, EmptyProps, live)
          [] wrapped_val.kind = "PBool" ->
                Call("aiSetImportPropertyInteger", imp.property_store, NULL, 0, "",
                     s, PInt(IF wrapped_val.b THEN 1 ELSE 0), EmptyProps, live)
          [] wrapped_val.kind = "PStr" ->
                Call("aiSetImportPropertyString", imp.property_store, NULL, 0, "",
                     s, wrapped_val, EmptyProps, live)

\* set_import_property clearing the flag word.
after_set_import_property_clears(imp) == [imp EXCEPT !.flags = 0]

\* Importer::set_import_property: the Importer after it.  The body assigns
\* no field of self.
after_set_import_property(imp) == imp

\* Importer::set_import_property, called with one of `properties` on a
\* store that holds at most `others` keys besides the one about to be
\* written, keeping in `prev` the operation before it when it is one of
\* `history`.
SetImportPropertyOf(properties, others, history) ==
    \E property \in properties, tail \in NameTails :
    \E fault \in (IF StoreLive(importer.property_store)
                  THEN {FALSE} ELSE BOOLEAN) :
        /\ running
        /\ importer.state = "live"
        /\ LET c == ReadName(set_import_property(importer, property), tail) IN
            /\ Cardinality(DOMAIN StoreProps(stores, c.store)
                            \ {Key(c.name, c.tail)}) <= others
            /\ calls' = <<c>>
            /\ stores' = aiSetImportProperty(stores, c.store,
                                             Key(c.name, c.tail), c.val)
        /\ StepAfter(Ret("set_import_property", 0, "unit", << >>, property,
                         FALSE, importer.flags), history)
        /\ importer' = after_set_import_property(importer)
        \* the setter writes through the store pointer it is given
        /\ running' = ~fault
        /\ UNCHANGED <<native, scenes>>

\* The most keys a store can come to hold.
AnyKeys ==
    Cardinality(BoolVariants \cup IntVariants \cup FloatVariants
                \cup StrVariants \cup ListVariants) * Cardinality(NameTails)

SetImportProperty == SetImportPropertyOf(PropInputs, AnyKeys, {})

\* The same, with a value of every variant and one property at a time.
SetAnyProperty == SetImportPropertyOf(AnyProperty, 0, {})

\* reset_import_properties that allocates the new store and forgets to
\* release the old one.
reset_import_properties_leak(imp, st, fresh) ==
    [importer |-> [imp EXCEPT !.property_store = fresh],
     stores |-> aiCreatePropertyStore(st, fresh),
     calls |-> <<Returned(Call("aiCreatePropertyStore", NULL, NULL, 0, "", "",
                               Unset, EmptyProps, TRUE), fresh)>>]

\* reset_import_properties that does nothing.
reset_import_properties_noop(imp, st, fresh) ==
    [importer |-> imp, stores |-> st, calls |-> << >>]

\* Importer::reset_import_properties, the allocator returning `fresh`:
\* the Importer and the native stores after it.
reset_import_properties(imp, st, fresh) ==
    [importer |-> [imp EXCEPT !.property_store = fresh],
     stores |-> aiCreatePropertyStore(
                    aiReleasePropertyStore(st, imp.property_store), fresh),
     calls |-> <<Call("aiReleasePropertyStore", imp.property_store, NULL, 0, "",
                      "", Unset, StoreProps(st, imp.property_store),
                      imp.property_store # NULL
                        /\ st[imp.property_store].state = "live"),
                 Returned(Call("aiCreatePropertyStore", NULL, NULL, 0, "", "",
                               Unset, EmptyProps, TRUE), fresh)>>]

ResetImportPropertiesOf(may_fail) ==
    \E fresh \in AllocOutcomes(may_fail) :
        /\ running
        /\ importer.state = "live"
        /\ LET r == reset_import_properties(importer, stores, fresh) IN
            /\ importer' = r.importer
            /\ stores' = r.stores
            /\ calls' = r.calls
        /\ Step(Ret("reset_import_properties", 0, "unit", << >>, NoProperty,
                    FALSE, importer.flags))
        /\ UNCHANGED <<native, scenes, running>>

ResetImportProperties == ResetImportPropertiesOf(FALSE)

\* Importer::reset_import_properties where the allocation may fail.
ResetOrNull == ResetImportPropertiesOf(TRUE)

\* Drop for Importer
drop_importer(imp, st) ==
    [stores |-> aiReleasePropertyStore(st, imp.property_store),
     calls |-> <<Call("aiReleasePropertyStore", imp.property_store, NULL, 0, "",
                      "", Unset, StoreProps(st, imp.property_store),
                      imp.property_store # NULL
                        /\ st[imp.property_store].state = "live")>>]

DropImporter ==
    /\ running
    /\ importer.state = "live"
    /\ LET r == drop_importer(importer, stores) IN
        /\ stores' = r.stores
        /\ calls' = r.calls
    /\ importer' = Importer("dropped", NULL, 0)
    /\ Step(Ret("drop_importer", 0, "unit", << >>, NoProperty, FALSE,
                importer.flags))
    /\ UNCHANGED <<native, scenes, running>>

\* What aiImportFileExWithProperties may return for a file and a flag word:
\* NULL, or a newly allocated scene and the flags the library gave it (the
\* validation step marks a scene it accepted).
NativeImportOutcomesOf(file, flags, ptrs, contents, words) ==
    LET fresh == {p \in ptrs : native[p].state = "unallocated"} IN
    {[raw |-> NULL, flags |-> 0, scene |-> RawScene(0, NullPtr)]}
    \cup
    (IF file = "examples/assets/cube.dae" /\ fresh # {} /\ FreshWrappers # {}
     THEN {[raw |-> Least(fresh),
            flags |-> IF BitAnd(flags, Process_ValidateDS) # 0
                      THEN BitOr(base, SceneFlags_VALIDATED) ELSE base,
            scene |-> scene] :
           base \in words, scene \in contents}
     ELSE {})

NativeImportOutcomes(file, flags) ==
    NativeImportOutcomesOf(file, flags, ScenePtrs, {TriangleScene},
                           ImportedSceneFlags)

\* Importer::import_from_file: the one foreign call it issues.
import_call(imp, file) ==
    Call("aiImportFileExWithProperties", imp.property_store, NULL, imp.flags,
         file, "", Unset,
         StoreProps(stores, imp.property_store),
         StoreLive(imp.property_store))

\* import_from_file that asks the library a second time.
import_from_file_calls_retry(imp, file) ==
    <<import_call(imp, file), import_call(imp, file)>>

\* Importer::import_from_file: the foreign calls it issues, in order.
import_from_file_calls(imp, file) == <<import_call(imp, file)>>

\* import_from_file without the null check.
import_from_file_unchecked(raw) == "Some"

\* Importer::import_from_file: the Option it makes of the returned pointer.
import_from_file(raw) == IF raw = NULL THEN "None" ELSE "Some"

\* Scene::from_raw_scene, `flags` and `num_meshes` being what the reads of
\* raw.flags and raw.num_meshes yield.
from_raw_scene(raw, flags, num_meshes) ==
    [Scene("Imported", raw, flags, FALSE) EXCEPT !.num_meshes = num_meshes]

\* The operations an import keeps in `prev` when it follows them.
ImportHistory ==
    {"new", "set_import_property", "reset_import_properties",
     "no_post_processing"}

\* Importer::import_from_file, the native importer handing out one of
\* `ptrs` and building one of `contents` with one of the flag words `words`.
ImportFromFileOf(ptrs, contents, words) ==
    \E file_name \in Files :
    \E out \in NativeImportOutcomesOf(file_name, importer.flags, ptrs,
                                       contents, words) :
        /\ running
        /\ importer.state = "live"
        /\ calls' = [i \in DOMAIN import_from_file_calls(importer, file_name) |->
                        Returned(import_from_file_calls(importer, file_name)[i],
                                 out.raw)]
        /\ native' = IF out.raw = NULL THEN native
                     ELSE [native EXCEPT ![out.raw] =
                            [state |-> "live", flags |-> out.flags,
                             releases |-> 0,
                             num_meshes |-> out.scene.num_meshes,
                             meshes |-> out.scene.meshes]]
        /\ IF import_from_file(out.raw) = "Some"
           THEN LET w == Least(FreshWrappers) IN
                /\ scenes' = [scenes EXCEPT ![w] =
                                from_raw_scene(out.raw, out.flags,
                                               out.scene.num_meshes)]
                /\ StepAfter(Ret("import_from_file", w, "Some", << >>,
                                 NoProperty, FALSE, importer.flags),
                             ImportHistory)
                \* a reference made of the null pointer is undefined behaviour
                /\ running' = (out.raw # NULL)
           ELSE /\ scenes' = scenes
                /\ StepAfter(Ret("import_from_file", 0, "None", << >>,
                                 NoProperty, FALSE, importer.flags),
                             ImportHistory)
                /\ running' = running
        /\ UNCHANGED <<importer, stores>>

ImportFromFile == ImportFromFileOf(ScenePtrs, {TriangleScene}, ImportedSceneFlags)

\* --------------------------------------------------------------- the Scene

\* A Scene wrapper that was constructed and not dropped.
Alive(w) == scenes[w].state = "Imported"

\* The accessors that read through self.raw_scene.
DerefAccessors ==
    {"get_root_node", "get_animations", "get_meshes", "get_lights",
     "get_cameras", "get_materials", "get_textures"}

\* What reading through a scene pointer yields.
DerefOutcomes(p) == IF SceneLive(p) THEN {"view"} ELSE DanglingOutcomes

\* Scene::get_root_node, get_animations, get_meshes, get_lights, get_cameras,
\* get_materials, get_textures
GetView ==
    \E w \in WrapperIds, acc \in DerefAccessors :
    \E out \in DerefOutcomes(scenes[w].raw_scene) :
        /\ running
        /\ Alive(w)
        /\ calls' = << >>
        /\ Step(Ret(acc, w, out, << >>, NoProperty, scenes[w].failed, 0))
        /\ running' = (out # "fault")
        /\ UNCHANGED <<importer, stores, native, scenes>>

\* Scene::get_memory_info
GetMemoryInfo ==
    \E w \in WrapperIds :
    \E out \in (IF SceneLive(scenes[w].raw_scene)
                THEN {"MemoryInfo"} ELSE DanglingOutcomes) :
        /\ running
        /\ Alive(w)
        /\ calls' = <<Call("aiGetMemoryRequirements", NULL, scenes[w].raw_scene, 0,
                           "", "", Unset, EmptyProps,
                           SceneLive(scenes[w].raw_scene))>>
        /\ Step(Ret("get_memory_info", w, out, << >>, NoProperty,
                    scenes[w].failed, 0))
        /\ running' = (out # "fault")
        /\ UNCHANGED <<importer, stores, native, scenes>>

\* Scene::check_flag
CheckFlag ==
    \E w \in WrapperIds, flag \in SceneFlags :
        /\ running
        /\ Alive(w)
        /\ calls' = << >>
        /\ Step(Ret("check_flag", w,
                    IF check_flag(scenes[w].flags, flag) THEN "true" ELSE "false",
                    << >>, NoProperty, scenes[w].failed, flag))
        /\ UNCHANGED <<importer, stores, native, scenes, running>>

\* What aiApplyPostProcessing may do to the scene at p: the pointer it returns
\* and the native scene it leaves.  Only the validation step can fail, and
\* then the library resets the scene; a scene it already reset or released
\* is freed memory.
NativePostProcessOutcomes(p, flags) ==
    IF SceneLive(p)
    THEN {[raw |-> p, fault |-> FALSE,
           scene |-> IF BitAnd(flags, Process_ValidateDS) # 0
                     THEN [native[p] EXCEPT
                              !.flags = BitOr(@, SceneFlags_VALIDATED)]
                     ELSE native[p]]}
         \cup
         (IF BitAnd(flags, Process_ValidateDS) # 0
          THEN {[raw |-> NULL, fault |-> FALSE,
                 scene |-> [native[p] EXCEPT !.state = "reset"]]}
          ELSE {})
    ELSE {[raw |-> r, fault |-> f,
           scene |-> IF p = NULL THEN NoNative ELSE native[p]] :
          r \in {NULL, p}, f \in BOOLEAN}

\* apply_postprocessing without the null check.
apply_postprocessing_unchecked(scene) == "Ok"

\* Scene::apply_postprocessing: the Result it makes of the returned pointer.
apply_postprocessing(scene) == IF scene = NULL THEN "Err" ELSE "Ok"

\* Scene::apply_postprocessing: the wrapper after the call returned `result`.
\* The source leaves self untouched on both paths (`failed` is the history
\* of the call, not a field of the struct).
after_postprocessing(self, result) ==
    [self EXCEPT !.failed = @ \/ result = "Err"]

ApplyPostProcessing ==
    \E w \in WrapperIds, steps \in CallStepLists :
        /\ running
        /\ Alive(w)
        \* &mut self: no view borrowed from the Scene is held
        /\ scenes[w].view # "self"
        /\ \E out \in NativePostProcessOutcomes(scenes[w].raw_scene,
                                                fold_flags(0, steps)) :
           LET flags == fold_flags(0, steps)
               p == scenes[w].raw_scene
               result == apply_postprocessing(out.raw)
           IN
            /\ calls' = <<Returned(Call("aiApplyPostProcessing", NULL, p, flags,
                                        "", "", Unset, EmptyProps, SceneLive(p)),
                                   out.raw)>>
            /\ native' = IF p = NULL THEN native
                         ELSE [native EXCEPT ![p] = out.scene]
            /\ scenes' = [scenes EXCEPT ![w] = after_postprocessing(scenes[w], result)]
            /\ Step(Ret("apply_postprocessing", w, result, steps, NoProperty,
                        scenes[w].failed, 0))
            /\ running' = ~out.fault
            /\ UNCHANGED <<importer, stores>>

\* A destructor that releases every scene the library holds.
drop_scene_all(self, nat) ==
    [native |-> [p \in DOMAIN nat |->
                    IF nat[p].state = "live" THEN aiReleaseImport(nat, p)[p]
                    ELSE nat[p]],
     calls |-> <<Call("aiReleaseImport", NULL, self.raw_scene, 0, "", "", Unset,
                      EmptyProps, SceneLive(self.raw_scene))>>]

\* A destructor that releases nothing.
drop_scene_forgets(self, nat) == [native |-> nat, calls |-> << >>]

\* Drop for Scene: the native scenes after it, and the call it issues.
drop_scene(self, nat) ==
    [native |-> aiReleaseImport(nat, self.raw_scene),
     calls |-> <<Call("aiReleaseImport", NULL, self.raw_scene, 0, "", "", Unset,
                      EmptyProps, SceneLive(self.raw_scene))>>]

DropScene ==
    \E w \in WrapperIds :
    \E fault \in (IF SceneLive(scenes[w].raw_scene) \/ scenes[w].raw_scene = NULL
                  THEN {FALSE} ELSE BOOLEAN) :
        /\ running
        /\ Alive(w)
        \* a Scene is not dropped while a view borrowed from it is held
        /\ scenes[w].view # "self"
        /\ LET r == drop_scene(scenes[w], native) IN
            /\ native' = r.native
            /\ calls' = r.calls
        /\ scenes' = [scenes EXCEPT ![w].state = "Dropped", ![w].flags = 0,
                                    ![w].num_meshes = 0]
        /\ Step(Ret("drop_scene", w, "unit", << >>, NoProperty,
                    scenes[w].failed, 0))
        /\ running' = ~fault
        /\ UNCHANGED <<importer, stores>>

\* Scene::from_raw_scene called from outside the crate (it is `pub unsafe`)
\* with a pointer to a scene the library handed out.  Reading the counts
\* through a pointer to a freed scene is undefined behaviour.
FromRawScene ==
    \E raw \in {p \in ScenePtrs : native[p].state # "unallocated"} :
    \E out \in DerefOutcomes(raw) :
        /\ running
        /\ FreshWrappers # {}
        /\ LET w == Least(FreshWrappers) IN
            /\ scenes' = IF out = "fault" THEN scenes
                         ELSE [scenes EXCEPT ![w] =
                                IF out = "view"
                                THEN from_raw_scene(raw, native[raw].flags,
                                                    native[raw].num_meshes)
                                ELSE from_raw_scene(raw, 0, 0)]
            /\ Step(Ret("from_raw_scene", IF out = "fault" THEN 0 ELSE w, out,
                        << >>, NoProperty, FALSE, 0))
        /\ calls' = << >>
        /\ running' = (out # "fault")
        /\ UNCHANGED <<importer, stores, native>>

\* ---------------------------------------------------------------- slices

\* ptr_to_slice allocating the slice it returns.
ptr_to_slice_copy(ptr, len) ==
    Slice(PtrTo(ptr.addr + 1, SubSeq(ptr.mem, 1, len)), len)

\* util::ptr_to_slice: raw::Slice { data: transmute(ptr), len: len }
ptr_to_slice(ptr, len) == Slice(ptr, len)

\* util::ptr_ptr_to_slice: the same, of an array of pointers.
ptr_ptr_to_slice(ptr, len) == Slice(ptr, len)

\* Scene::get_meshes
get_meshes(raw_scene) == ptr_ptr_to_slice(raw_scene.meshes, raw_scene.num_meshes)

\* Mesh::get_faces
get_faces(self) == ptr_to_slice(self.faces, self.num_faces)

\* Face::get_indices taking every face for a triangle.
get_indices_triangle(self) == ptr_to_slice(self.indices, 3)

\* Face::get_indices
get_indices(self) == ptr_to_slice(self.indices, self.num_indices)

\* The indices of a slice, counted from 0.
Indices(slice) == 0..(slice.len - 1)

\* The pointers and counts the adapters are called with: null or not, the
\* count within the array at the pointer.
AdapterPtrs ==
    {NullPtr} \cup {PtrTo(40, [i \in 1..n |-> 7 * i]) : n \in 0..MaxIndices}

AdapterPtrPtrs ==
    {NullPtr}
    \cup {PtrTo(50, [i \in 1..n |-> PtrTo(50 + i, <<i>>)]) : n \in 0..MaxMeshes}

\* util::ptr_to_slice
PtrToSlice ==
    \E ptr \in AdapterPtrs :
    \E len \in 0..Len(ptr.mem) :
        /\ running
        /\ calls' = << >>
        /\ Step(Sliced(Ret("ptr_to_slice", 0, "view", << >>, NoProperty, FALSE, 0),
                        << >>, ptr, len, ptr_to_slice(ptr, len)))
        /\ UNCHANGED <<importer, stores, native, scenes, running>>

\* util::ptr_ptr_to_slice
PtrPtrToSlice ==
    \E ptr \in AdapterPtrPtrs :
    \E len \in 0..Len(ptr.mem) :
        /\ running
        /\ calls' = << >>
        /\ Step(Sliced(Ret("ptr_ptr_to_slice", 0, "view", << >>, NoProperty,
                            FALSE, 0),
                        << >>, ptr, len, ptr_ptr_to_slice(ptr, len)))
        /\ UNCHANGED <<importer, stores, native, scenes, running>>

\* Scene::get_meshes.  Through a pointer to a scene the library reset or
\* released the read of the count and of the array is undefined behaviour.
GetMeshes ==
    \E w \in WrapperIds :
    \E out \in DerefOutcomes(scenes[w].raw_scene) :
        /\ running
        /\ Alive(w)
        /\ calls' = << >>
        /\ LET r == Ret("get_meshes", w, out, << >>, NoProperty,
                        scenes[w].failed, 0)
               raw_scene == native[scenes[w].raw_scene]
           IN  Step(IF out = "view"
                    THEN Sliced(r, << >>, raw_scene.meshes, raw_scene.num_meshes,
                                get_meshes(raw_scene))
                    ELSE r)
        /\ running' = (out # "fault")
        /\ UNCHANGED <<importer, stores, native, scenes>>

\* Mesh::get_faces, on mesh k of get_meshes()
GetFaces ==
    \E w \in WrapperIds :
        /\ running
        /\ Alive(w)
        /\ SceneLive(scenes[w].raw_scene)
        /\ \E k \in Indices(get_meshes(native[scenes[w].raw_scene])) :
            LET mesh == At(get_meshes(native[scenes[w].raw_scene]), k) IN
                Step(Sliced(Ret("get_faces", w, "view", << >>, NoProperty,
                                scenes[w].failed, 0),
                            <<k>>, mesh.faces, mesh.num_faces, get_faces(mesh)))
        /\ calls' = << >>
        /\ UNCHANGED <<importer, stores, native, scenes, running>>

\* Face::get_indices, on face j of mesh k
GetIndices ==
    \E w \in WrapperIds :
        /\ running
        /\ Alive(w)
        /\ SceneLive(scenes[w].raw_scene)
        /\ \E k \in Indices(get_meshes(native[scenes[w].raw_scene])) :
            \E j \in Indices(get_faces(At(get_meshes(native[scenes[w].raw_scene]), k))) :
            LET mesh == At(get_meshes(native[scenes[w].raw_scene]), k)
                face == At(get_faces(mesh), j)
            IN  Step(Sliced(Ret("get_indices", w, "view", << >>, NoProperty,
                                scenes[w].failed, 0),
                            <<k, j>>, face.indices, face.num_indices,
                            get_indices(face)))
        /\ calls' = << >>
        /\ UNCHANGED <<importer, stores, native, scenes, running>>

\* ------------------------------------------------------ vertex arrays

\* mesh::Mesh { num_vertices, vertices, normals, tangents, bitangents,
\* colors, texture_coords }; colors and texture_coords are the inline arrays
\* of channel pointers, given as the field's address and its slots.
MeshVertices(num_vertices, vertices, normals, tangents, bitangents, colors, texture_coords) ==
    [num_vertices |-> num_vertices, vertices |-> vertices, normals |-> normals,
     tangents |-> tangents, bitangents |-> bitangents, colors |-> colors,
     texture_coords |-> texture_coords]

\* A per-vertex array of n elements at addr.
VertexArray(addr, n) == PtrTo(addr, [i \in 1..n |-> addr + i])

\* What the library may keep in the pointer of an optional per-vertex array
\* of a mesh of n vertices: null, or an array of n elements.
OptionalArray(addr, n) == {NullPtr, VertexArray(addr, n)}

\* An inline array of channel pointers: the slots of `present` point to an
\* array of n elements each, the others are null.
ChannelArray(addr, n, slots, present) ==
    PtrTo(addr, [c \in 1..slots |->
                    IF c \in present THEN VertexArray(addr + 10 * c, n)
                    ELSE NullPtr])

\* The slots of a channel array mirrored: slot c for slot slots + 1 - c.
Mirrored(present, slots) == {slots + 1 - c : c \in present}

\* The meshes of n vertices the per-vertex accessors are called on: each
\* optional array absent or present, no channels.
VertexMeshesOf(n) ==
    {MeshVertices(n, VertexArray(100, n), normals, tangents, bitangents,
                  ChannelArray(400, n, MAX_NUMBER_OF_COLOR_SETS, {}),
                  ChannelArray(500, n, MAX_NUMBER_OF_TEXTURECOORDS, {})) :
        normals \in OptionalArray(200, n),
        tangents \in OptionalArray(300, n),
        bitangents \in OptionalArray(350, n)}

VertexMeshes == UNION {VertexMeshesOf(n) : n \in 0..MaxVertices}

\* The meshes of n vertices the channel accessors are called on: every
\* pattern of present color sets, the UV channels present in the mirrored
\* pattern.
ChannelMeshesOf(n) ==
    {MeshVertices(n, VertexArray(100, n), NullPtr, NullPtr, NullPtr,
                  ChannelArray(400, n, MAX_NUMBER_OF_COLOR_SETS, present),
                  ChannelArray(500, n, MAX_NUMBER_OF_TEXTURECOORDS,
                               Mirrored(present, MAX_NUMBER_OF_TEXTURECOORDS))) :
        present \in SUBSET (1..MAX_NUMBER_OF_COLOR_SETS)}

ChannelMeshes == UNION {ChannelMeshesOf(n) : n \in 0..MaxVertices}

\* Mesh::get_vertices
get_vertices(self) == ptr_to_slice(self.vertices, self.num_vertices)

\* get_normals without the test for null.
get_normals_unchecked(self) == ptr_to_slice(self.normals, self.num_vertices)

\* Mesh::get_normals
get_normals(self) ==
    LET len == IF self.normals.addr = NULL THEN 0 ELSE self.num_vertices
    IN  ptr_to_slice(self.normals, len)

\* Mesh::get_tangents
get_tangents(self) ==
    LET len == IF self.tangents.addr = NULL THEN 0 ELSE self.num_vertices
    IN  ptr_to_slice(self.tangents, len)

\* Mesh::get_bitangents
get_bitangents(self) ==
    LET len == IF self.bitangents.addr = NULL THEN 0 ELSE self.num_vertices
    IN  ptr_to_slice(self.bitangents, len)

\* for x in channels.iter() { if x.is_null() { continue; } push } : a loop
\* that skips the null slots.
RECURSIVE channels_continue(_, _)
channels_continue(channels, num_vertices) ==
    IF channels = << >> THEN << >>
    ELSE IF Head(channels).addr = NULL
         THEN channels_continue(Tail(channels), num_vertices)
         ELSE <<ptr_to_slice(Head(channels), num_vertices)>>
              \o channels_continue(Tail(channels), num_vertices)

\* for x in channels.iter() { if x.is_null() { break; } list.push(..) }
RECURSIVE channels_break(_, _)
channels_break(channels, num_vertices) ==
    IF channels = << >> \/ Head(channels).addr = NULL THEN << >>
    ELSE <<ptr_to_slice(Head(channels), num_vertices)>>
         \o channels_break(Tail(channels), num_vertices)

\* get_colors going on after a null slot.
get_colors_continue(self) == channels_continue(self.colors.mem, self.num_vertices)

\* Mesh::get_colors
get_colors(self) == channels_break(self.colors.mem, self.num_vertices)

\* Mesh::get_texture_coords
get_texture_coords(self) ==
    channels_break(self.texture_coords.mem, self.num_vertices)

\* An accessor of a mesh that returned `slice`, made of ptr and num_vertices.
VertexStep(op, ptr, num_vertices, slice) ==
    /\ running
    /\ calls' = << >>
    /\ Step(Sliced(Ret(op, 0, "view", << >>, NoProperty, FALSE, 0),
                   << >>, ptr, num_vertices, slice))
    /\ UNCHANGED <<importer, stores, native, scenes, running>>

\* An accessor of a mesh that returned the Vec `list`, made of the channel
\* array at ptr and num_vertices.
ChannelStep(op, ptr, num_vertices, list) ==
    /\ running
    /\ calls' = << >>
    /\ Step([Sliced(Ret(op, 0, "Vec", << >>, NoProperty, FALSE, 0),
                    << >>, ptr, num_vertices, NoSlice) EXCEPT !.list = list])
    /\ UNCHANGED <<importer, stores, native, scenes, running>>

\* Mesh::get_vertices
GetVertices ==
    \E self \in VertexMeshes :
        VertexStep("get_vertices", self.vertices, self.num_vertices,
                   get_vertices(self))

\* Mesh::get_normals
GetNormals ==
    \E self \in VertexMeshes :
        VertexStep("get_normals", self.normals, self.num_vertices,
                   get_normals(self))

\* Mesh::get_tangents
GetTangents ==
    \E self \in VertexMeshes :
        VertexStep("get_tangents", self.tangents, self.num_vertices,
                   get_tangents(self))

\* Mesh::get_bitangents
GetBitangents ==
    \E self \in VertexMeshes :
        VertexStep("get_bitangents", self.bitangents, self.num_vertices,
                   get_bitangents(self))

\* Mesh::get_colors
GetColors ==
    \E self \in ChannelMeshes :
        ChannelStep("get_colors", self.colors, self.num_vertices,
                    get_colors(self))

\* Mesh::get_texture_coords
GetTextureCoords ==
    \E self \in ChannelMeshes :
        ChannelStep("get_texture_coords", self.texture_coords,
                    self.num_vertices, get_texture_coords(self))

\* --------------------------------------------------------------- textures

\* The values of a c_uint of TextureBits bits.
Words == 0..(2 ^ TextureBits - 1)

\* texture::Texture { width, height, pc_data }
Texture(width, height, pc_data) ==
    [width |-> width, height |-> height, pc_data |-> pc_data]

\* The textures the library embeds in a scene: for height 0 a buffer of
\* width bytes, otherwise an array of width times height texels.
Textures ==
    {Texture(width, height,
             PtrTo(600, [i \in 1..(IF height = 0 THEN width ELSE width * height)
                            |-> i % 256])) :
        width \in Words, height \in Words}

\* self.width * self.height, the product of two c_uint
mul_c_uint(a, b) == (a * b) % (2 ^ TextureBits)

\* texture::TextureData: Encoded { len, data } or Decoded { width, height,
\* data }, as the variant, its scalar fields and its data.
TextureData(variant, fields, data) ==
    [variant |-> variant, fields |-> fields, data |-> data]

\* Texture::get_texture_data
get_texture_data(self) ==
    IF self.height = 0
    THEN TextureData("Encoded", <<self.width>>,
                     ptr_to_slice(self.pc_data, self.width))
    ELSE TextureData("Decoded", <<self.width, self.height>>,
                     ptr_to_slice(self.pc_data,
                                  mul_c_uint(self.width, self.height)))

\* Texture::get_texture_data
GetTextureData ==
    \E self \in Textures :
        /\ running
        /\ calls' = << >>
        /\ LET data == get_texture_data(self) IN
            Step([Sliced(Ret("get_texture_data", 0, data.variant, << >>,
                             NoProperty, FALSE, 0),
                         << >>, self.pc_data, Len(self.pc_data.mem), data.data)
                  EXCEPT !.args = <<self.width, self.height>>,
                         !.fields = data.fields])
        /\ UNCHANGED <<importer, stores, native, scenes, running>>

\* ------------------------------------------------------------------ nodes

\* scene::Node { parent, num_children, children, num_meshes, meshes }; a
\* pointer to a node is the node's address in the hierarchy.
Node(parent, num_children, children, num_meshes, meshes) ==
    [parent |-> parent, num_children |-> num_children, children |-> children,
     num_meshes |-> num_meshes, meshes |-> meshes]

\* Whether following the parent pointers of `parents` from node k ends at
\* the null pointer within `fuel` steps.
RECURSIVE Climbs(_, _, _)
Climbs(parents, k, fuel) ==
    IF k = NULL THEN TRUE
    ELSE IF fuel = 0 THEN FALSE
    ELSE Climbs(parents, parents[k], fuel - 1)

\* The parent pointers of the hierarchies of n nodes: the first node is the
\* root and has none, and every other node hangs under the root.
ParentMaps(n) ==
    {parents \in [1..n -> 0..n] :
        /\ \A k \in 1..n : parents[k] = NULL <=> k = 1
        /\ \A k \in 1..n : Climbs(parents, k, n)}

\* The elements of a set of addresses, in ascending order.
RECURSIVE Ascending(_)
Ascending(set) ==
    IF set = {} THEN << >>
    ELSE <<Least(set)>> \o Ascending(set \ {Least(set)})

\* The hierarchy the library builds for `parents`: the children array of a
\* node holds the pointers to the nodes whose parent it is and is null when
\* there are none; node k refers to k - 1 meshes, from mesh `first` on.
Hierarchy(parents, first) ==
    [k \in DOMAIN parents |->
        LET children == Ascending({c \in DOMAIN parents : parents[c] = k})
            meshes == [i \in 1..(k - 1) |-> first + i - 1]
        IN  Node(parents[k],
                 Len(children), ArrayPtr(700 + 10 * k, children, NULL),
                 Len(meshes), ArrayPtr(800 + 10 * k, meshes, NULL))]

\* The node hierarchies of imported scenes, of 1 to MaxNodes nodes.
Hierarchies ==
    {Hierarchy(parents, first) :
        parents \in UNION {ParentMaps(n) : n \in 1..MaxNodes},
        first \in {0, 1}}

\* Option<&Node>
None == [some |-> FALSE, node |-> NULL]
Some(node) == [some |-> TRUE, node |-> node]

\* get_parent without the test for null.
get_parent_unchecked(self) == Some(self.parent)

\* Node::get_parent
get_parent(self) == IF self.parent = NULL THEN None ELSE Some(self.parent)

\* Node::get_children
get_children(self) == ptr_ptr_to_slice(self.children, self.num_children)

\* Node::get_meshes
node_get_meshes(self) == ptr_to_slice(self.meshes, self.num_meshes)

\* The record of get_parent called on `self`, the node at address k that
\* was reached by `path`, in the hierarchy `nodes`: ptr is the parent
\* pointer and the node found there.
ParentStep(nodes, k, path) ==
    LET self == nodes[k]
        parent == get_parent(self)
    IN  /\ running
        /\ calls' = << >>
        /\ Step([Sliced(Ret("get_parent", 0,
                            IF parent.some THEN "Some" ELSE "None",
                            << >>, NoProperty, FALSE, 0),
                        path,
                        IF self.parent = NULL THEN NullPtr
                        ELSE PtrTo(self.parent, <<nodes[self.parent]>>),
                        0, NoSlice)
                 EXCEPT !.args = <<k, self.parent>>,
                        !.fields = IF parent.some THEN <<parent.node>>
                                   ELSE << >>])
        /\ UNCHANGED <<importer, stores, native, scenes, running>>

\* Node::get_parent, on any node of a hierarchy
GetParent ==
    \E nodes \in Hierarchies :
    \E k \in DOMAIN nodes :
        ParentStep(nodes, k, << >>)

\* Node::get_parent, on child i of get_children() of node k
GetParentOfChild ==
    \E nodes \in Hierarchies :
    \E k \in DOMAIN nodes :
    \E i \in Indices(get_children(nodes[k])) :
        ParentStep(nodes, At(get_children(nodes[k]), i), <<k, i>>)

\* Node::get_children
GetChildren ==
    \E nodes \in Hierarchies :
    \E k \in DOMAIN nodes :
        /\ running
        /\ calls' = << >>
        /\ Step([Sliced(Ret("get_children", 0, "view", << >>, NoProperty,
                            FALSE, 0),
                        << >>, nodes[k].children, nodes[k].num_children,
                        get_children(nodes[k]))
                 EXCEPT !.args = <<k, nodes[k].parent>>])
        /\ UNCHANGED <<importer, stores, native, scenes, running>>

\* Node::get_meshes
GetNodeMeshes ==
    \E nodes \in Hierarchies :
    \E k \in DOMAIN nodes :
        /\ running
        /\ calls' = << >>
        /\ Step([Sliced(Ret("node_get_meshes", 0, "view", << >>, NoProperty,
                            FALSE, 0),
                        << >>, nodes[k].meshes, nodes[k].num_meshes,
                        node_get_meshes(nodes[k]))
                 EXCEPT !.args = <<k, nodes[k].parent>>])
        /\ UNCHANGED <<importer, stores, native, scenes, running>>

\* ----------------------------------------------------------- held views

\* An accessor whose view is not tied to the borrow of self.
view_lifetime_static(acc) == "static"

\* fn get_root_node(&self) -> &Node and the like: the elided lifetime of
\* the returned view is that of the borrow of self.
view_lifetime(acc) == "self"

\* The caller calls an accessor and keeps the view it returned.
HoldView ==
    \E w \in WrapperIds, acc \in DerefAccessors :
    \E out \in DerefOutcomes(scenes[w].raw_scene) :
        /\ running
        /\ Alive(w)
        /\ scenes[w].view = "none"
        /\ calls' = << >>
        /\ scenes' = IF out = "fault" THEN scenes
                     ELSE [scenes EXCEPT ![w].view = view_lifetime(acc)]
        /\ Step(Ret(acc, w, out, << >>, NoProperty, scenes[w].failed, 0))
        /\ running' = (out # "fault")
        /\ UNCHANGED <<importer, stores, native>>

\* The caller reads through the view it holds.
ReadView ==
    \E w \in WrapperIds :
    \E out \in DerefOutcomes(scenes[w].raw_scene) :
        /\ running
        /\ scenes[w].view # "none"
        /\ calls' = << >>
        /\ Step(Ret("read_view", w, out, << >>, NoProperty, scenes[w].failed, 0))
        /\ running' = (out # "fault")
        /\ UNCHANGED <<importer, stores, native, scenes>>

\* The view the caller holds goes out of scope.
ReleaseView ==
    \E w \in WrapperIds :
        /\ running
        /\ scenes[w].view # "none"
        /\ calls' = << >>
        /\ scenes' = [scenes EXCEPT ![w].view = "none"]
        /\ Step(Ret("release_view", w, "unit", << >>, NoProperty,
                    scenes[w].failed, 0))
        /\ UNCHANGED <<importer, stores, native, running>>

\* ---------------------------------------------------------- specification

\* The operations of the Importer.
NextImporter ==
    \/ New
    \/ AddProcessingSteps
    \/ RmProcessingSteps
    \/ NoPostProcessing
    \/ SetImportProperty
    \/ ResetImportProperties
    \/ ImportFromFile
    \/ DropImporter

\* The operations of the Scene.
NextSceneOps ==
    \/ GetView
    \/ GetMemoryInfo
    \/ CheckFlag
    \/ ApplyPostProcessing
    \/ DropScene

Next == NextImporter \/ NextSceneOps

\* Every operation of the crate's Importer and Scene.
Spec == Init /\ [][Next]_vars

\* The Importer alone: the scenes it returns are left untouched.
SpecImporter == Init /\ [][NextImporter]_vars

\* The property store, with a value of every variant of Property.
NextProps ==
    \/ New
    \/ SetAnyProperty
    \/ ResetImportProperties
    \/ ImportFromFile
    \/ DropImporter

SpecProps == Init /\ [][NextProps]_vars

\* The life of the scenes: an Importer is made, given flags, used and
\* dropped, and the scenes it returned are read, post-processed and dropped.
NextScene ==
    \/ New
    \/ AddProcessingSteps
    \/ ImportFromFile
    \/ DropImporter
    \/ NextSceneOps

SpecScene == Init /\ [][NextScene]_vars

\* The flag word alone, over every step list.
NextFlags ==
    \/ New
    \/ AddSteps
    \/ RmSteps
    \/ NoPostProcessing

SpecFlags == Init /\ [][NextFlags]_vars

\* The life of the scenes when callers also use Scene::from_raw_scene.
NextRaw == NextScene \/ FromRawScene

SpecRaw == Init /\ [][NextRaw]_vars

\* import_from_file, the native importer building every scene of
\* SceneContents; one scene is looked at in a run.
ImportScene ==
    ImportFromFileOf({Least(ScenePtrs)}, SceneContents, ImportedSceneFlags)

\* The slices made of the arrays of a scene.
NextViews ==
    \/ New
    \/ ImportScene
    \/ GetMeshes
    \/ GetFaces
    \/ GetIndices
    \/ PtrToSlice
    \/ PtrPtrToSlice
    \/ ApplyPostProcessing
    \/ DropScene

SpecViews == Init /\ [][NextViews]_vars

\* Every flag word a scene may carry.
SceneFlagWords == 0..(2 * SceneFlags_TERRAIN - 1)

ImportFlagged == ImportFromFileOf(ScenePtrs, {TriangleScene}, SceneFlagWords)

\* The flags of a scene.
NextSceneFlags ==
    \/ New
    \/ ImportFlagged
    \/ CheckFlag
    \/ DropScene
    \/ DropImporter

SpecSceneFlags == Init /\ [][NextSceneFlags]_vars

\* An allocator that may return NULL.
NextAlloc ==
    \/ NewOrNull
    \/ SetImportProperty
    \/ ResetOrNull
    \/ ImportFromFile
    \/ DropImporter

SpecAlloc == Init /\ [][NextAlloc]_vars

\* set_import_property on a store that holds at most the key it writes.
SetOneProperty == SetImportPropertyOf(PropInputs, 0, {})

\* import_from_file, the native importer handing out MaxOwned scenes.
ImportOwned == ImportFromFileOf(OwnedPtrs, {TriangleScene}, ImportedSceneFlags)

\* One Importer and the scenes it returned.
NextOwned ==
    \/ New
    \/ AddProcessingSteps
    \/ SetOneProperty
    \/ ImportOwned
    \/ DropScene
    \/ DropImporter

SpecOwned == Init /\ [][NextOwned]_vars

\* The views a caller holds on a scene.
NextBorrow ==
    \/ New
    \/ ImportFromFile
    \/ HoldView
    \/ ReadView
    \/ ReleaseView
    \/ ApplyPostProcessing
    \/ DropScene
    \/ DropImporter

SpecBorrow == Init /\ [][NextBorrow]_vars

\* One value of every variant of Property, and PropInputs: a second value
\* of a bool and of a list variant.
NamedProperties ==
    {BoolProperty(v, TRUE) : v \in BoolVariants}
    \cup {IntProperty(v, 2500) : v \in IntVariants}
    \cup {FloatProperty(v, "0.5") : v \in FloatVariants}
    \cup {StrProperty(v, "skin") : v \in StrVariants}
    \cup {ListProperty(v, << >>) : v \in ListVariants}
    \cup PropInputs

\* set_import_property with a value of every variant, on a store that holds
\* at most one other property, the set before it kept.
SetNamedProperty ==
    SetImportPropertyOf(NamedProperties, 1, {"set_import_property"})

\* The names under which properties are filed.
NextNames ==
    \/ New
    \/ SetNamedProperty

SpecNames == Init /\ [][NextNames]_vars

\* The per-vertex arrays of a mesh.
NextMesh ==
    \/ GetVertices
    \/ GetNormals
    \/ GetTangents
    \/ GetBitangents
    \/ GetColors
    \/ GetTextureCoords

SpecMesh == Init /\ [][NextMesh]_vars

\* The embedded textures.
NextTexture == GetTextureData

SpecTexture == Init /\ [][NextTexture]_vars

\* The node hierarchy.
NextNode ==
    \/ GetParent
    \/ GetParentOfChild
    \/ GetChildren
    \/ GetNodeMeshes

SpecNode == Init /\ [][NextNode]_vars

\* ------------------------------------------------------------------ claims

\* The foreign calls of the last operation that went to `fn`.
CallsTo(fn) == {i \in DOMAIN calls : calls[i].fn = fn}

\* The operations of a Scene other than its destruction.
SceneOps == DerefAccessors \cup {"get_memory_info", "check_flag", "apply_postprocessing"}

\* C1: for every Scene an import returned, aiReleaseImport has been issued for
\* its scene no times while the Scene is alive, whatever accessors and
\* apply_postprocessing calls (failed ones included) were made on it, and
\* exactly once when it has been dropped; only the destructor issues it.
C1_ReleaseExactlyOnce ==
    /\ \A w \in WrapperIds :
        /\ scenes[w].state = "Imported" => native[scenes[w].raw_scene].releases = 0
        /\ scenes[w].state = "Dropped" => native[scenes[w].raw_scene].releases = 1
    /\ CallsTo("aiReleaseImport") # {} =>
        /\ ret.op = "drop_scene"
        /\ Len(calls) = 1
        /\ calls[1].scene = scenes[ret.w].raw_scene
    /\ ret.op = "drop_scene" => CallsTo("aiReleaseImport") = {1}

\* A Scene on which apply_postprocessing failed has been dropped, and the one
\* release call was issued.
C1_Witness ==
    \E w \in WrapperIds :
        /\ scenes[w].state = "Dropped"
        /\ scenes[w].failed
        /\ ret.op = "drop_scene"
        /\ ret.w = w
        /\ native[scenes[w].raw_scene].releases = 1

\* C2: no property store is released twice; a live Importer refers to the one
\* store the library still holds; once the Importer is dropped every store
\* that was created has been released once; and no set-property, import or
\* release call is given a store that was already released.
C2_StoreOwnership ==
    /\ \A s \in StoreIds :
        /\ stores[s].releases <= 1
        /\ stores[s].state = "released" <=> stores[s].releases = 1
    /\ importer.state = "live" =>
        {s \in StoreIds : stores[s].state = "live"} = {importer.property_store}
    /\ importer.state # "live" =>
        \A s \in StoreIds :
            stores[s].state # "unallocated" => stores[s].releases = 1
    /\ \A i \in DOMAIN calls :
        calls[i].fn \in {"aiSetImportPropertyInteger", "aiSetImportPropertyFloat",
                         "aiSetImportPropertyString",
                         "aiImportFileExWithProperties",
                         "aiReleasePropertyStore"}
        => calls[i].live

\* The Importer was reset and then dropped: two stores, each released once.
C2_Witness ==
    /\ ret.op = "drop_importer"
    /\ importer.state = "dropped"
    /\ Cardinality({s \in StoreIds : stores[s].releases = 1}) >= 2

\* C3: import_from_file returns None exactly when the native call returned
\* NULL; Some(Scene) refers to the pointer the call returned; on the None path
\* no Scene is constructed and no release call is issued.
C3_ImportResult ==
    ret.op = "import_from_file" =>
        /\ Len(calls) = 1
        /\ ret.val = "None" <=> calls[1].result = NULL
        /\ ret.val = "Some" =>
            /\ ret.w \in WrapperIds
            /\ scenes[ret.w].state = "Imported"
            /\ scenes[ret.w].raw_scene = calls[1].result
        /\ ret.val = "None" =>
            /\ ret.w = 0
            /\ CallsTo("aiReleaseImport") = {}
            /\ Cardinality({w \in WrapperIds : scenes[w].state # "none"})
                = Cardinality({p \in ScenePtrs : native[p].state # "unallocated"})

\* An import of a readable file failed and returned None.
C3_Witness ==
    /\ ret.op = "import_from_file"
    /\ ret.val = "None"
    /\ calls[1].file = "examples/assets/cube.dae"
    /\ calls[1].result = NULL

\* C4: once apply_postprocessing has returned Err on a Scene, every later
\* operation on it fails with an "invalid scene" error and passes the scene
\* pointer to nothing.
C4_InvalidSceneRejected ==
    (ret.op \in SceneOps /\ ret.invalid) =>
        /\ ret.val = "InvalidScene"
        /\ calls = << >>

\* C5: every Scene wrapper holds a non-null pointer, no two live wrappers hold
\* the same pointer, and no scene is released twice.
C5_SingleOwner ==
    /\ \A w \in WrapperIds :
        scenes[w].state # "none" => scenes[w].raw_scene # NULL
    /\ \A w1, w2 \in WrapperIds :
        (w1 # w2 /\ Alive(w1) /\ Alive(w2))
        => scenes[w1].raw_scene # scenes[w2].raw_scene
    /\ \A p \in ScenePtrs : native[p].releases <= 1

\* rm_processing_steps(S) has just run right after add_processing_steps(S).
AddThenRm ==
    /\ ret.op = "rm_processing_steps"
    /\ prev.op = "add_processing_steps"
    /\ prev.steps = ret.steps

\* Whether some step of the list has bit b.
Named(set, b) == \E i \in DOMAIN set : Bit(set[i], b) = 1

\* C6 as stated: add_processing_steps(S) then rm_processing_steps(S) leaves
\* the flag word equal to its value before either call.
C6_AddThenRmRestores == AddThenRm => importer.flags = prev.old

\* C6 as amended: add_processing_steps(S) then rm_processing_steps(S) leaves
\* the flag word equal to its value before either call with the bits of S
\* cleared, which is the value before exactly when no bit of S was set in it.
C6_AddThenRmClears ==
    AddThenRm =>
        /\ \A b \in 0..(WordBits - 1) :
            Bit(importer.flags, b)
                = IF Named(ret.steps, b) THEN 0 ELSE Bit(prev.old, b)
        /\ importer.flags = prev.old
            <=> \A b \in 0..(WordBits - 1) :
                    Named(ret.steps, b) => Bit(prev.old, b) = 0

\* add(S) then rm(S) on a word that already had a step of S and another step.
C6_Witness ==
    /\ AddThenRm
    /\ importer.flags # prev.old
    /\ importer.flags # 0

\* C7: after add_processing_steps the flag word has exactly the bits of the
\* old word and of the steps given, whatever their order and however often a
\* step is repeated; two calls in a row give the bits of the old word and of
\* the steps of both.
C7_AddIsOr ==
    ret.op = "add_processing_steps" =>
        /\ \A b \in 0..(WordBits - 1) :
            Bit(importer.flags, b) = 1
                <=> (Bit(ret.old, b) = 1 \/ Named(ret.steps, b))
        /\ importer.flags < 2 ^ WordBits
        /\ prev.op = "add_processing_steps" =>
            \A b \in 0..(WordBits - 1) :
                Bit(importer.flags, b) = 1
                    <=> (Bit(prev.old, b) = 1 \/ Named(prev.steps, b)
                         \/ Named(ret.steps, b))

\* Two adds in a row, the second repeating one step that the first had given.
C7_Witness ==
    /\ ret.op = "add_processing_steps"
    /\ prev.op = "add_processing_steps"
    /\ Len(ret.steps) = 2
    /\ ret.steps[1] = ret.steps[2]
    /\ \E i \in DOMAIN prev.steps : prev.steps[i] = ret.steps[1]
    /\ Len(prev.steps) = 2
    /\ prev.steps[1] # prev.steps[2]

\* C8: rm_processing_steps clears the bits of the steps given and leaves every
\* other bit as it was; when no bit of the steps was set the word is unchanged.
C8_RmClearsOnlyGiven ==
    ret.op = "rm_processing_steps" =>
        /\ \A b \in 0..(WordBits - 1) :
            Bit(importer.flags, b)
                = IF Named(ret.steps, b) THEN 0 ELSE Bit(ret.old, b)
        /\ (\A b \in 0..(WordBits - 1) :
                Named(ret.steps, b) => Bit(ret.old, b) = 0)
            => importer.flags = ret.old

\* A step that was not set is removed from a word holding another step.
C8_Witness ==
    /\ ret.op = "rm_processing_steps"
    /\ ret.steps # << >>
    /\ ret.old # 0
    /\ \A b \in 0..(WordBits - 1) : Named(ret.steps, b) => Bit(ret.old, b) = 0
    /\ importer.flags = ret.old

\* C9: after reset_import_properties the Importer's store is live and empty
\* and the flag word is what it was; an import that follows is given an empty
\* store and that flag word.
C9_ResetDiscards ==
    /\ ret.op = "reset_import_properties" =>
        /\ StoreLive(importer.property_store)
        /\ stores[importer.property_store].props = EmptyProps
        /\ importer.flags = ret.old
    /\ (ret.op = "import_from_file" /\ prev.op = "reset_import_properties") =>
        \A i \in DOMAIN calls :
            /\ calls[i].props = EmptyProps
            /\ calls[i].flags = prev.old

\* A reset has discarded a store that held properties, with flags set.
C9_Witness ==
    /\ ret.op = "reset_import_properties"
    /\ calls # << >>
    /\ calls[1].fn = "aiReleasePropertyStore"
    /\ calls[1].props # EmptyProps
    /\ importer.flags # 0

\* C10: import_from_file issues one foreign call, the import call, with the
\* Importer's flag word and property store and no file-IO, whether it returns
\* a scene or NULL; no other operation issues an import call.
C10_OneImportCall ==
    /\ ret.op = "import_from_file" =>
        /\ Len(calls) = 1
        /\ calls[1].fn = "aiImportFileExWithProperties"
        /\ calls[1].flags = importer.flags
        /\ calls[1].store = importer.property_store
        /\ calls[1].props = stores[importer.property_store].props
        /\ calls[1].fio = NULL
    /\ CallsTo("aiImportFileExWithProperties") # {} => ret.op = "import_from_file"

\* An import with flags and properties set returned NULL.
C10_Witness ==
    /\ ret.op = "import_from_file"
    /\ ret.val = "None"
    /\ Len(calls) = 1
    /\ calls[1].flags # 0
    /\ calls[1].props # EmptyProps

\* C11: set_import_property issues exactly one native setter call for every
\* variant of Property, on the Importer's own store, and the setter is the
\* one of the payload's type: the float setter for f32, the string setter
\* for AiString, the integer setter for int and for lists, and the integer
\* setter with 1 or 0 for bool.  The Importer then still holds a live store,
\* and an import_from_file that follows issues its one call on that store.
C11_SetterMatchesPayload ==
    /\ ret.op = "set_import_property" =>
        /\ Len(calls) = 1
        /\ calls[1].store = importer.property_store
        /\ calls[1].live
        /\ calls[1].name = decompose_property(ret.prop)[1]
        /\ ret.prop.variant \in FloatVariants =>
                /\ calls[1].fn = "aiSetImportPropertyFloat"
                /\ calls[1].val = PFloat(ret.prop.f)
        /\ ret.prop.variant \in StrVariants =>
                /\ calls[1].fn = "aiSetImportPropertyString"
                /\ calls[1].val = PStr(ret.prop.s)
        /\ ret.prop.variant \in IntVariants =>
                /\ calls[1].fn = "aiSetImportPropertyInteger"
                /\ calls[1].val = PInt(ret.prop.i)
        /\ ret.prop.variant \in ListVariants =>
                /\ calls[1].fn = "aiSetImportPropertyInteger"
                /\ calls[1].val.kind = "PInt"
        /\ ret.prop.variant \in BoolVariants =>
                /\ calls[1].fn = "aiSetImportPropertyInteger"
                /\ calls[1].val = PInt(IF ret.prop.b THEN 1 ELSE 0)
        /\ importer.state = "live"
        /\ StoreLive(importer.property_store)
    /\ (ret.op = "import_from_file" /\ prev.op = "set_import_property") =>
        /\ Len(calls) = 1
        /\ calls[1].fn = "aiImportFileExWithProperties"
        /\ calls[1].store = importer.property_store
        /\ calls[1].live
        /\ ret.val \in {"Some", "None"}

\* A scene imported right after a bool property was set to true.
C11_Witness ==
    /\ ret.op = "import_from_file"
    /\ ret.val = "Some"
    /\ prev.op = "set_import_property"
    /\ prev.prop.variant \in BoolVariants
    /\ prev.prop.b

\* The value set_import_property hands to the native setter.
Sent(property) == set_import_property(importer, property).val

\* C12: an import observes, under the name of a property, the value of the
\* set_import_property call made for it just before the import.
C12_ImportObservesLastSet ==
    (ret.op = "import_from_file" /\ prev.op = "set_import_property") =>
        Lookup(calls[1].props,
               Key(decompose_property(prev.prop)[1], Terminated))
            = Sent(prev.prop)

\* C16: for a list property the integer handed to the setter has exactly the
\* bits set in some element of the list, so it is 0 for the empty list and
\* does not depend on the order of the elements or on repeated ones.
C16_ListIsOr ==
    (ret.op = "set_import_property" /\ ret.prop.variant \in ListVariants) =>
        /\ Len(calls) = 1
        /\ calls[1].fn = "aiSetImportPropertyInteger"
        /\ calls[1].val.kind = "PInt"
        /\ calls[1].val.i \in 0..(2 ^ WordBits - 1)
        /\ \A b \in 0..(WordBits - 1) :
                Bit(calls[1].val.i, b) = 1 <=> Named(ret.prop.list, b)
        /\ ret.prop.list = << >> => calls[1].val.i = 0

\* A list with a repeated element, and one of elements sharing a bit.
C16_Witness ==
    /\ ret.op = "set_import_property"
    /\ ret.prop.variant = "PP_TUV_EVALUATE"
    /\ Len(ret.prop.list) = 2
    /\ ret.prop.list[1] = TransformUV_All
    /\ ret.prop.list[2] \in {TransformUV_Scaling, TransformUV_All}
    /\ calls[1].val.i = TransformUV_All

\* C17: Importer::new returns an Importer whose flags are 0 and whose store
\* is the one the allocator just returned, live, empty and never released;
\* an import made right after new passes flags 0 and an empty store.
C17_NewIsEmpty ==
    /\ ret.op = "new" =>
        /\ importer.state = "live"
        /\ importer.flags = 0
        /\ Len(calls) = 1
        /\ calls[1].fn = "aiCreatePropertyStore"
        /\ calls[1].result = importer.property_store
        /\ StoreLive(importer.property_store)
        /\ stores[importer.property_store].props = EmptyProps
        /\ stores[importer.property_store].releases = 0
    /\ (ret.op = "import_from_file" /\ prev.op = "new") =>
        /\ Len(calls) = 1
        /\ calls[1].flags = 0
        /\ calls[1].store = importer.property_store
        /\ calls[1].props = EmptyProps

\* A scene imported right after the second Importer of the run was made, the
\* first one having been given properties and dropped.
C17_Witness ==
    /\ ret.op = "import_from_file"
    /\ ret.val = "Some"
    /\ prev.op = "new"
    /\ \E s \in StoreIds : stores[s].state = "released"

\* The native scene behind the wrapper of the last operation.
RetScene == native[scenes[ret.w].raw_scene]

\* C13: on a Scene produced by an import whose native scene the library
\* still holds, get_meshes() has as many entries as the scene's num_meshes
\* and they are the meshes of its array; get_faces() of each mesh has as
\* many entries as the mesh's num_faces; get_indices() of each face has
\* exactly num_indices entries, the ones of the face's array.
C13_SliceLengths ==
    /\ (ret.op = "get_meshes" /\ ret.val = "view") =>
        /\ ret.slice.len = RetScene.num_meshes
        /\ ret.slice.len = Len(RetScene.meshes.mem)
        /\ \A k \in Indices(ret.slice) :
                At(ret.slice, k) = RetScene.meshes.mem[k + 1]
    /\ ret.op = "get_faces" =>
        LET mesh == RetScene.meshes.mem[ret.path[1] + 1] IN
            /\ ret.slice.len = mesh.num_faces
            /\ ret.slice.len = Len(mesh.faces.mem)
            /\ \A j \in Indices(ret.slice) :
                    At(ret.slice, j) = mesh.faces.mem[j + 1]
    /\ ret.op = "get_indices" =>
        LET mesh == RetScene.meshes.mem[ret.path[1] + 1]
            face == mesh.faces.mem[ret.path[2] + 1]
        IN  /\ ret.slice.len = face.num_indices
            /\ ret.slice.len = Len(face.indices.mem)
            /\ \A i \in Indices(ret.slice) :
                    At(ret.slice, i) = face.indices.mem[i + 1]

\* The indices of the second face of the second mesh of a scene, which are
\* not three.
C13_Witness ==
    /\ ret.op = "get_indices"
    /\ ret.path = <<1, 1>>
    /\ ret.slice.len = RetScene.meshes.mem[2].faces.mem[2].num_indices
    /\ ret.slice.len # 3

\* C14: ptr_to_slice and ptr_ptr_to_slice return a slice of as many elements
\* as the count, so an empty one for count 0 whether the pointer is null or
\* not; element i of the slice is the element i places after the pointer;
\* the slice is made of the pointer itself, nothing is read, copied or
\* called.
C14_SliceOfPointer ==
    ret.op \in {"ptr_to_slice", "ptr_ptr_to_slice"} =>
        /\ ret.slice.len = ret.len
        /\ ret.len = 0 => Indices(ret.slice) = {}
        /\ \A i \in Indices(ret.slice) : At(ret.slice, i) = ret.ptr.mem[i + 1]
        /\ ret.slice.data = ret.ptr
        /\ calls = << >>

\* A slice of MaxIndices elements made of a pointer that is not null, its
\* last element the last one of the array.
C14_Witness ==
    /\ ret.op = "ptr_to_slice"
    /\ ret.ptr.addr # NULL
    /\ ret.slice.len = MaxIndices
    /\ At(ret.slice, MaxIndices - 1) = ret.ptr.mem[MaxIndices]

\* C15: check_flag(flag) answers true exactly when the bit of `flag` is set
\* in the flags of the Scene, for every flag of SceneFlags and every flag
\* word, and changes nothing: not the Scene, not the Importer, not the
\* native library's state, and it calls nothing.
C15_CheckFlagReadsBit ==
    [][ret'.op = "check_flag" =>
        /\ ret'.val = "true" <=> (scenes[ret'.w].flags \div ret'.old) % 2 = 1
        /\ ret'.val \in {"true", "false"}
        /\ scenes' = scenes
        /\ native' = native
        /\ importer' = importer
        /\ stores' = stores
        /\ calls' = << >>]_vars

\* A flag found set in a word that has other flags set and others clear.
C15_Witness ==
    /\ ret.op = "check_flag"
    /\ ret.val = "true"
    /\ ret.old = SceneFlags_VALIDATION_WARNING
    /\ scenes[ret.w].flags
        = SceneFlags_INCOMPLETE + SceneFlags_VALIDATION_WARNING + SceneFlags_TERRAIN

\* The foreign calls that are given a property store.
StoreCalls ==
    {"aiSetImportPropertyInteger", "aiSetImportPropertyFloat",
     "aiSetImportPropertyString", "aiImportFileExWithProperties",
     "aiReleasePropertyStore"}

\* C18: no Importer holds a null property store, and no set, import or
\* release call is given one, also where aiCreatePropertyStore may return
\* NULL in new or reset_import_properties.
C18_NoNullStore ==
    /\ importer.state = "live" => importer.property_store # NULL
    /\ \A i \in DOMAIN calls :
            calls[i].fn \in StoreCalls => calls[i].store # NULL

\* C19: import_from_file leaves the Importer as it was (its flags, its
\* store and the store's contents) whether it returns a Scene or not, and
\* makes at most one Scene, of a scene no other wrapper holds, leaving the
\* other Scenes and native scenes alone; dropping a Scene releases nothing
\* but its own native scene, and dropping the Importer releases no scene.
C19_ImportKeepsImporter ==
    [][/\ ret'.op = "import_from_file" =>
            /\ importer' = importer
            /\ stores' = stores
            /\ \A w \in WrapperIds : w # ret'.w => scenes'[w] = scenes[w]
            /\ \A p \in DOMAIN native :
                    native[p].state # "unallocated" => native'[p] = native[p]
            /\ ret'.val = "Some" =>
                    /\ scenes[ret'.w].state = "none"
                    /\ native[scenes'[ret'.w].raw_scene].state = "unallocated"
                    /\ \A w \in WrapperIds :
                            (w # ret'.w /\ Alive(w)) =>
                                scenes[w].raw_scene # scenes'[ret'.w].raw_scene
            /\ ret'.val = "None" => scenes' = scenes /\ native' = native
       /\ ret'.op = "drop_scene" =>
            /\ \A p \in DOMAIN native :
                    p # scenes[ret'.w].raw_scene => native'[p] = native[p]
            /\ \A w \in WrapperIds : w # ret'.w => scenes'[w] = scenes[w]
       /\ ret'.op = "drop_importer" =>
            native' = native /\ scenes' = scenes]_vars

\* Two scenes of one Importer: the first was dropped and released, the
\* second is still held by the library after the Importer was dropped too.
C19_Witness ==
    /\ ret.op = "drop_importer"
    /\ \E w1, w2 \in WrapperIds :
        /\ scenes[w1].state = "Dropped"
        /\ native[scenes[w1].raw_scene].state = "released"
        /\ Alive(w2)
        /\ scenes[w2].raw_scene # scenes[w1].raw_scene
        /\ SceneLive(scenes[w2].raw_scene)
        /\ native[scenes[w2].raw_scene].releases = 0

\* C20: a view obtained from a Scene is only read while that Scene has not
\* been dropped and its native scene has not been released.
C20_NoReadAfterRelease ==
    ret.op = "read_view" =>
        /\ Alive(ret.w)
        /\ native[scenes[ret.w].raw_scene].state # "released"

\* A view read after the Importer that returned its Scene was dropped.
C20_Witness ==
    /\ ret.op = "read_view"
    /\ ret.val = "view"
    /\ scenes[ret.w].view = "self"
    /\ importer.state = "dropped"

\* C21: apply_postprocessing issues one foreign call, aiApplyPostProcessing,
\* on the scene the wrapper holds, with a flag word that has exactly the bits
\* of the steps given (0 for no steps); it returns Err exactly when the call
\* returned NULL and Ok otherwise; after Ok the Scene is still Imported and
\* holds the pointer it held, which is the one the call returned.
C21_PostProcessResult ==
    ret.op = "apply_postprocessing" =>
        /\ Len(calls) = 1
        /\ calls[1].fn = "aiApplyPostProcessing"
        /\ calls[1].scene = scenes[ret.w].raw_scene
        /\ \A b \in 0..(WordBits - 1) :
                Bit(calls[1].flags, b) = 1 <=> Named(ret.steps, b)
        /\ calls[1].flags < 2 ^ WordBits
        /\ ret.steps = << >> => calls[1].flags = 0
        /\ ret.val = "Err" <=> calls[1].result = NULL
        /\ ret.val = "Ok" <=> calls[1].result # NULL
        /\ ret.val = "Ok" =>
            /\ Alive(ret.w)
            /\ scenes[ret.w].raw_scene = calls[1].result

\* A scene imported without validation was validated and triangulated in
\* one call that returned Ok.
C21_Witness ==
    /\ ret.op = "apply_postprocessing"
    /\ ret.val = "Ok"
    /\ ret.steps = <<Process_ValidateDS, Process_Triangulate>>
    /\ calls[1].flags = Process_ValidateDS + Process_Triangulate
    /\ calls[1].live
    /\ ~ret.invalid
    /\ Alive(ret.w)

\* C22: the flags and num_meshes fields of every live Scene equal the flags
\* and num_meshes of its native scene, also after apply_postprocessing
\* changed the native scene in place.
C22_MirrorsNative ==
    \A w \in WrapperIds :
        (Alive(w) /\ SceneLive(scenes[w].raw_scene)) =>
            /\ scenes[w].flags = native[scenes[w].raw_scene].flags
            /\ scenes[w].num_meshes = native[scenes[w].raw_scene].num_meshes

\* C23: no_post_processing sets the flag word to 0 whatever it was, leaves
\* the Importer's store and every store's contents as they were and calls
\* nothing; the import that follows it passes flags 0 and the store with the
\* properties it held before.
C23_NoPostProcessingClears ==
    [][/\ ret'.op = "no_post_processing" =>
            /\ importer'.flags = 0
            /\ importer'.property_store = importer.property_store
            /\ importer'.state = importer.state
            /\ stores' = stores
            /\ calls' = << >>
       /\ (ret'.op = "import_from_file" /\ ret.op = "no_post_processing") =>
            /\ Len(calls') = 1
            /\ calls'[1].flags = 0
            /\ calls'[1].store = importer.property_store
            /\ calls'[1].props = StoreProps(stores, importer.property_store)]_vars

\* An import right after no_post_processing cleared a word that had steps,
\* on a store that holds properties.
C23_Witness ==
    /\ ret.op = "import_from_file"
    /\ prev.op = "no_post_processing"
    /\ prev.old # 0
    /\ calls[1].flags = 0
    /\ calls[1].props # EmptyProps

\* The operations on the flag word of the Importer.
FlagOps == {"add_processing_steps", "rm_processing_steps", "no_post_processing"}

\* C24: set_import_property leaves the flag word as it was, and
\* add_processing_steps, rm_processing_steps and no_post_processing leave
\* the Importer's store and the contents of every store as they were and
\* issue no foreign call.
C24_FlagsAndPropertiesApart ==
    [][/\ ret'.op = "set_import_property" => importer'.flags = importer.flags
       /\ ret'.op \in FlagOps =>
            /\ importer'.property_store = importer.property_store
            /\ stores' = stores
            /\ calls' = << >>]_vars

\* A property was set on an Importer whose flag word has steps, and the
\* word still has them; the store holds the property.
C24_Witness ==
    /\ ret.op = "set_import_property"
    /\ ret.old # 0
    /\ importer.flags = ret.old
    /\ stores[importer.property_store].props # EmptyProps

\* The contents of the Importer's store.
OwnProps == StoreProps(stores, importer.property_store)

\* C25: two properties have the same name exactly when they are of the same
\* variant, whatever their payloads; so after set_import_property of one
\* variant, the value that the call before it set for another variant is
\* still in the store under that variant's name.
C25_NamesDistinct ==
    (ret.op = "set_import_property" /\ prev.op = "set_import_property") =>
        /\ calls[1].name = decompose_property(ret.prop)[1]
        /\ ret.prop.variant = prev.prop.variant
            <=> calls[1].name = decompose_property(prev.prop)[1]
        /\ ret.prop.variant # prev.prop.variant =>
            \E tail \in NameTails :
                Lookup(OwnProps, Key(decompose_property(prev.prop)[1], tail))
                    = Sent(prev.prop)

\* Two keyframe properties of the same payload were set one after the
\* other, and the store holds both.
C25_Witness ==
    /\ ret.op = "set_import_property"
    /\ prev.op = "set_import_property"
    /\ prev.prop = IntProperty("IMPORT_MD2_KEYFRAME", 2500)
    /\ ret.prop = IntProperty("IMPORT_MD3_KEYFRAME", 2500)
    /\ Cardinality(DOMAIN OwnProps) = 2

\* C26: get_normals, get_tangents and get_bitangents return a slice of no
\* elements when the array's pointer is null and of num_vertices elements,
\* the ones of the array, when it is not; get_vertices returns a slice of
\* num_vertices elements in every case.  Each slice is made of the pointer.
C26_OptionalArrays ==
    /\ ret.op \in {"get_normals", "get_tangents", "get_bitangents"} =>
        /\ ret.ptr.addr = NULL => ret.slice.len = 0
        /\ ret.ptr.addr # NULL => ret.slice.len = ret.len
        /\ ret.slice.data = ret.ptr
        /\ \A i \in Indices(ret.slice) : At(ret.slice, i) = ret.ptr.mem[i + 1]
    /\ ret.op = "get_vertices" =>
        /\ ret.slice.len = ret.len
        /\ ret.slice.data = ret.ptr
        /\ \A i \in Indices(ret.slice) : At(ret.slice, i) = ret.ptr.mem[i + 1]

\* The normals of a mesh that has vertices and no normals.
C26_Witness ==
    /\ ret.op = "get_normals"
    /\ ret.ptr.addr = NULL
    /\ ret.len = MaxVertices
    /\ ret.slice.len = 0

\* The number of slots at the head of a channel array that are not null.
LeadingRun(slots) ==
    Cardinality({c \in DOMAIN slots : \A d \in 1..c : slots[d].addr # NULL})

\* C27: get_colors and get_texture_coords return as many slices as there
\* are slots before the first null slot (all 8 when none is null), in slot
\* order, each made of its slot's pointer and of num_vertices elements; a
\* slot after a null slot is not returned whether it is null or not.
C27_LeadingChannels ==
    ret.op \in {"get_colors", "get_texture_coords"} =>
        /\ Len(ret.ptr.mem) = IF ret.op = "get_colors"
                              THEN MAX_NUMBER_OF_COLOR_SETS
                              ELSE MAX_NUMBER_OF_TEXTURECOORDS
        /\ Len(ret.list) = LeadingRun(ret.ptr.mem)
        /\ \A c \in DOMAIN ret.list :
            /\ ret.list[c].data = ret.ptr.mem[c]
            /\ ret.list[c].data.addr # NULL
            /\ ret.list[c].len = ret.len

\* Colors of a mesh whose slots 1, 2 and 4 are present and whose slot 3 is
\* null: two slices.
C27_Witness ==
    /\ ret.op = "get_colors"
    /\ ret.len = MaxVertices
    /\ ret.ptr.mem[1].addr # NULL
    /\ ret.ptr.mem[2].addr # NULL
    /\ ret.ptr.mem[3].addr = NULL
    /\ ret.ptr.mem[4].addr # NULL
    /\ Len(ret.list) = 2

\* C28: get_texture_data returns Encoded exactly when height is 0, with len
\* equal to width and data of width bytes; otherwise Decoded with the
\* texture's width and height and data of width times height texels, for
\* every width and height a c_uint can hold.
C28_TextureData ==
    ret.op = "get_texture_data" =>
        LET width == ret.args[1]
            height == ret.args[2]
        IN  /\ ret.val = "Encoded" <=> height = 0
            /\ ret.val = "Decoded" <=> height # 0
            /\ ret.slice.data = ret.ptr
            /\ ret.val = "Encoded" =>
                /\ ret.fields = <<width>>
                /\ ret.slice.len = width
            /\ ret.val = "Decoded" =>
                /\ ret.fields = <<width, height>>
                /\ ret.slice.len = width * height

\* C29: get_parent returns None exactly when the node's parent pointer is
\* null and otherwise Some of the node at that pointer; get_children and
\* get_meshes of a node return slices of num_children and num_meshes
\* elements, the ones of the node's arrays; get_parent of a node taken from
\* get_children of node N is Some(N).
C29_NodeLinks ==
    /\ ret.op = "get_parent" =>
        /\ ret.val = "None" <=> ret.args[2] = NULL
        /\ ret.val = "Some" =>
            /\ ret.fields = <<ret.args[2]>>
            /\ ret.ptr.addr = ret.args[2]
        /\ ret.path # << >> =>
            /\ ret.val = "Some"
            /\ ret.fields = <<ret.path[1]>>
    /\ ret.op \in {"get_children", "node_get_meshes"} =>
        /\ ret.slice.len = ret.len
        /\ ret.slice.data = ret.ptr
        /\ Len(ret.ptr.mem) = ret.len
        /\ \A i \in Indices(ret.slice) : At(ret.slice, i) = ret.ptr.mem[i + 1]

\* get_parent of the second child of a node that is not the root, the
\* parent having a parent of its own.
C29_Witness ==
    /\ ret.op = "get_parent"
    /\ ret.path # << >>
    /\ ret.path[2] = 1
    /\ ret.val = "Some"
    /\ ret.fields = <<ret.path[1]>>
    /\ ret.ptr.mem[1].parent # NULL

====
